---- MODULE Spec2Model ----
(***************************************************************************)
(* The indexing pipeline of DSA-Project: lexicon_builder.py,               *)
(* foward_indexing.py and backward_indexing.py.                            *)
(*                                                                         *)
(* A character is its code point (97 is 'a'), a word is a sequence of      *)
(* characters, so that lower(), slicing and sorted() behave as in Python.  *)
(* A Python dict is a sequence of <<key, value>> pairs in insertion order, *)
(* which is the order json.dump writes.  A directory is a function from    *)
(* file stem to file content.  Elapsed times are left out of the stats.    *)
(***************************************************************************)
EXTENDS Integers, Sequences, FiniteSets, TLC

(* ------------------------------------------------------------------ *)
(* Bounds of the model                                                 *)
(* ------------------------------------------------------------------ *)

\* longest word _is_valid_word or _get_barrel_name is called with on its own
MaxCandidateLen == 7

\* tokens of a document, and so positions 0..MaxTokens-1 of a record
MaxTokens == 2
\* largest batch_size tried
MaxBatchSize == 2

(* ------------------------------------------------------------------ *)
(* Words                                                               *)
(* ------------------------------------------------------------------ *)

W_star == <<115, 116, 97, 114>>
W_stab == <<115, 116, 97, 98>>
W_nebula == <<110, 101, 98, 117, 108, 97>>
W_Star == <<83, 116, 97, 114>>
W_xyzzyqq == <<120, 121, 122, 122, 121, 113, 113>>
W_ab == <<97, 98>>
\* "café": a run of word characters that are not all ASCII letters
W_cafe == <<99, 97, 102, 233>>
\* "ab1"
W_ab1 == <<97, 98, 49>>

\* "abab..." of n letters
Alternating(n) == [i \in 1..n |-> IF i % 2 = 1 THEN 97 ELSE 98]

\* words of 26, 30 and 31 letters
W_abab26 == Alternating(26)
W_abab30 == Alternating(30)
W_abab31 == Alternating(31)

\* str.lower() on one ASCII character
LowerChar(c) == IF c >= 65 /\ c <= 90 THEN c + 32 ELSE c

\* str.lower()
Lower(word) == [i \in 1..Len(word) |-> LowerChar(word[i])]

(* ------------------------------------------------------------------ *)
(* Python dicts, in insertion order                                    *)
(* ------------------------------------------------------------------ *)

DictKeys(d) == {d[i][1] : i \in 1..Len(d)}

DictIndex(d, k) == CHOOSE i \in 1..Len(d) : d[i][1] = k

DictGet(d, k) == d[DictIndex(d, k)][2]

\* d.get(k, default), and the read of a defaultdict
DictGetOr(d, k, default) == IF k \in DictKeys(d) THEN DictGet(d, k) ELSE default

\* d[k] = v: an existing key keeps its place, a new key goes last
DictPut(d, k, v) ==
    IF k \in DictKeys(d)
    THEN [d EXCEPT ![DictIndex(d, k)] = <<k, v>>]
    ELSE Append(d, <<k, v>>)

\* the dict as a keyed map, its order forgotten
AsMap(d) == [k \in DictKeys(d) |-> DictGet(d, k)]

(* ------------------------------------------------------------------ *)
(* State                                                               *)
(* ------------------------------------------------------------------ *)

VARIABLES
    \* BackwardIndexBuilder
    forward_index_dir,  \* file stem -> content of <stem>.json
    bw_lexicon_path,    \* the file at self.lexicon_path: <<>> while absent, else <<lexicon>>
    bw_lexicon,         \* lexicon.json as loaded: sequence of <<word, id>>
    batch_size,         \* self.batch_size
    forward_files,      \* the enumeration glob() returned for this build
    bw_i,               \* i of the batch loop
    bw_j,               \* files of the current batch already processed
    inverted_index,     \* self.inverted_index
    successful,         \* local counter of build_inverted_index
    processed,          \* files handed to _process_forward_index, with the result
    barrel_files,       \* output_dir: barrel name -> content of inverted_<name>.json
    bw_stats_file,      \* backward_indexing_stats.json, <<>> while absent
    bw_pc,              \* "idle", "aggregating", "done"
    builds,             \* completed runs of build_inverted_index
    prev_barrels,       \* barrel_files as the previous build left them
    saved,              \* the barrel files the latest build wrote
    prev_saved          \* the barrel files the build before it wrote

VARIABLES
    \* LexiconBuilder
    lx_cleaned_data_dir, \* file stem -> content of <stem>.txt
    english_words,      \* self.english_words
    lx_batch_size,      \* self.batch_size
    num_workers,        \* max(1, mp.cpu_count() - 1)
    lx_txt_files,       \* the enumeration glob() returned
    lx_i,               \* i of the batch loop
    pool_next,          \* tasks of the batch handed to a worker so far
    pool_running,       \* tasks of the batch a worker is processing
    pool_results,       \* task of the batch -> the set its worker returned
    all_words,          \* local all_words of build
    lexicon_file,       \* lexicon.json: <<>> while absent, else <<lexicon>>
    lx_stats_file,      \* lexicon_stats.json: <<>> while absent, else <<stats>>
    lx_pc,              \* "idle", "map", "save", "done"
    lx_builds,          \* completed runs of build that saved a lexicon
    prev_lexicon_file,  \* lexicon.json as the previous build left it
    lx_processed        \* the files pool.map has handed to a worker in this build

lxVars == <<lx_cleaned_data_dir, english_words, lx_batch_size, num_workers,
            lx_txt_files, lx_i, pool_next, pool_running, pool_results, all_words,
            lexicon_file, lx_stats_file, lx_pc, lx_builds, prev_lexicon_file,
            lx_processed>>

VARIABLES
    \* ForwardIndexBuilder
    cleaned_data_dir,   \* file stem -> content of <stem>.txt
    fw_lexicon_path,    \* the file at self.lexicon_path: <<>> while absent, else <<lexicon>>
    fw_lexicon,         \* self.lexicon: sequence of <<word, id>>
    fw_batch_size,      \* self.batch_size
    txt_files,          \* the enumeration glob() returned
    fw_i,               \* i of the batch loop
    fw_j,               \* files of the current batch already processed
    fw_successful,      \* local counter successful of build_indexes
    fw_failed,          \* local counter failed of build_indexes
    fw_stats,           \* self.stats
    fw_output,          \* output_dir: file stem -> content of <stem>.json
    fw_results,         \* what _process_single_file returned, file by file
    fw_memory,          \* document -> the words _process_single_file holds of it
    fw_pc               \* "idle", "indexing", "done", "raised"

fwVars == <<cleaned_data_dir, fw_lexicon_path, fw_lexicon, fw_batch_size, txt_files, fw_i, fw_j,
            fw_successful, fw_failed, fw_stats, fw_output, fw_results, fw_memory, fw_pc>>

bwVars == <<forward_index_dir, bw_lexicon_path, bw_lexicon, batch_size, forward_files, bw_i, bw_j,
            inverted_index, successful, processed, barrel_files, bw_stats_file,
            bw_pc, builds, prev_barrels, saved, prev_saved>>

VARIABLES
    \* one call of LexiconBuilder._is_valid_word
    vw_word,            \* the argument word
    vw_english_words,   \* self.english_words
    vw_valid,           \* the value returned
    vw_pc               \* "idle", "called", "returned"

vwVars == <<vw_word, vw_english_words, vw_valid, vw_pc>>

VARIABLES
    \* one call of BackwardIndexBuilder._get_barrel_name
    bn_word,            \* the argument word
    bn_name,            \* the value returned
    bn_pc               \* "idle", "called", "returned"

bnVars == <<bn_word, bn_name, bn_pc>>

\* the calls of single functions
callVars == <<vwVars, bnVars>>

vars == <<lxVars, fwVars, bwVars, callVars>>

\* no call of _is_valid_word on its own, for the behaviours of the stages
ValidWordIdle ==
    /\ vw_word = <<>>
    /\ vw_english_words = {}
    /\ vw_valid = FALSE
    /\ vw_pc = "idle"

\* no call of _get_barrel_name on its own
BarrelNameIdle ==
    /\ bn_word = <<>>
    /\ bn_name = <<>>
    /\ bn_pc = "idle"

CallsIdle == ValidWordIdle /\ BarrelNameIdle

\* the lexicon stage at rest, for the behaviours of the other stages
LexiconIdle ==
    /\ lx_cleaned_data_dir = <<>>
    /\ english_words = {}
    /\ lx_batch_size = 1
    /\ num_workers = 1
    /\ lx_txt_files = <<>>
    /\ lx_i = 0
    /\ pool_next = 0
    /\ pool_running = {}
    /\ pool_results = <<>>
    /\ all_words = {}
    /\ lexicon_file = <<>>
    /\ lx_stats_file = <<>>
    /\ lx_pc = "idle"
    /\ lx_builds = 0
    /\ prev_lexicon_file = <<>>
    /\ lx_processed = <<>>

\* the forward stage at rest, for the behaviours of the other stages
ForwardIdle ==
    /\ cleaned_data_dir = <<>>
    /\ fw_lexicon_path = <<>>
    /\ fw_lexicon = <<>>
    /\ fw_batch_size = 1
    /\ txt_files = <<>>
    /\ fw_i = 0
    /\ fw_j = 0
    /\ fw_successful = 0
    /\ fw_failed = 0
    /\ fw_stats = <<>>
    /\ fw_output = <<>>
    /\ fw_results = <<>>
    /\ fw_memory = <<>>
    /\ fw_pc = "idle"

\* the backward stage at rest
BackwardIdle ==
    /\ forward_index_dir = <<>>
    /\ bw_lexicon_path = <<>>
    /\ bw_lexicon = <<>>
    /\ batch_size = 1
    /\ forward_files = <<>>
    /\ bw_i = 0
    /\ bw_j = 0
    /\ inverted_index = <<>>
    /\ successful = 0
    /\ processed = <<>>
    /\ barrel_files = <<>>
    /\ bw_stats_file = <<>>
    /\ bw_pc = "idle"
    /\ builds = 0
    /\ prev_barrels = <<>>
    /\ saved = <<>>
    /\ prev_saved = <<>>

(* ------------------------------------------------------------------ *)
(* The regular expression and the directory listing of both builders   *)
(* ------------------------------------------------------------------ *)

\* the bounds of the quantifier {2,30} of word_pattern
MinWordLen == 2
MaxWordLen == 30

\* [a-zA-Z]
IsAsciiLetter(c) == (c >= 65 /\ c <= 90) \/ (c >= 97 /\ c <= 122)

\* A text is the sequence of its maximal runs of word characters (\w).
\* \b[a-zA-Z]{2,30}\b matches inside a run only from its first to its last
\* character, so findall gives the runs made of 2 to 30 ASCII letters.
findall(runs) ==
    SelectSeq(runs, LAMBDA run :
        /\ Len(run) >= MinWordLen
        /\ Len(run) <= MaxWordLen
        /\ \A k \in 1..Len(run) : IsAsciiLetter(run[k]))

\* _get_txt_files for one enumeration order of the directory
get_txt_files(listing) == SelectSeq(listing, LAMBDA f : f # "vocabulary")

TxtFiles(dir) == {f \in DOMAIN dir : dir[f].kind # "absent"}

\* the orders in which glob() may enumerate a set of files
Listings(files) ==
    {l \in [1..Cardinality(files) -> files] :
        \A i, j \in 1..Cardinality(files) : i # j => l[i] # l[j]}

\* batch = files[i:i + self.batch_size - 1]
BatchLenShort(files, i, size) ==
    IF i + size - 1 <= Len(files) THEN size - 1 ELSE Len(files) - i

\* batch = files[i:i + self.batch_size]
BatchLen(files, i, size) ==
    IF i + size <= Len(files) THEN size ELSE Len(files) - i

RECURSIVE SeqsUpTo(_, _)
SeqsUpTo(set, n) ==
    IF n = 0 THEN {<<>>}
    ELSE LET shorter == SeqsUpTo(set, n - 1)
         IN shorter \cup {Append(q, x) : q \in shorter, x \in set}

(* ------------------------------------------------------------------ *)
(* LexiconBuilder (lexicon_builder.py)                                 *)
(* ------------------------------------------------------------------ *)

\* the thresholds of _is_gibberish
MaxConsonantStreak == 5
MaxVowelStreak == 4
NoVowelLen == 3

\* vowels = set('aeiou')
IsVowel(c) == c \in {97, 101, 105, 111, 117}

\* the two streak loops of _is_gibberish: the longest run of characters that
\* are vowels (vowel = TRUE) or are not (vowel = FALSE)
RECURSIVE MaxStreak(_, _, _, _, _)
MaxStreak(word, vowel, k, streak, longest) ==
    IF k > Len(word) THEN longest
    ELSE IF IsVowel(word[k]) = vowel
         THEN MaxStreak(word, vowel, k + 1, streak + 1,
                        IF streak + 1 > longest THEN streak + 1 ELSE longest)
         ELSE MaxStreak(word, vowel, k + 1, 0, longest)

\* _is_gibberish with >= for > in the two streak tests
is_gibberish_at_threshold(word) ==
    \/ MaxStreak(word, FALSE, 1, 0, 0) >= MaxConsonantStreak
    \/ MaxStreak(word, TRUE, 1, 0, 0) >= MaxVowelStreak
    \/ \E i \in 1..(Len(word) - 2) : word[i] = word[i + 1] /\ word[i + 1] = word[i + 2]
    \/ (Len(word) > NoVowelLen /\ ~\E i \in 1..Len(word) : IsVowel(word[i]))

\* _is_gibberish
is_gibberish(word) ==
    \/ MaxStreak(word, FALSE, 1, 0, 0) > MaxConsonantStreak
    \/ MaxStreak(word, TRUE, 1, 0, 0) > MaxVowelStreak
    \/ \E i \in 1..(Len(word) - 2) : word[i] = word[i + 1] /\ word[i + 1] = word[i + 2]
    \/ (Len(word) > NoVowelLen /\ ~\E i \in 1..Len(word) : IsVowel(word[i]))

\* _is_valid_word
is_valid_word(w, dictionary) ==
    LET word == Lower(w)
    IN IF ~(MinWordLen <= Len(word) /\ Len(word) <= MaxWordLen)
          \/ ~(word # <<>> /\ \A k \in 1..Len(word) : IsAsciiLetter(word[k]))
       THEN FALSE
       ELSE IF dictionary # {} /\ word \in dictionary THEN TRUE
       ELSE IF is_gibberish(word) THEN FALSE
       ELSE TRUE

\* _process_file with valid_words.add(word) for valid_words.add(word_lower)
process_file_raw(content, dictionary) ==
    IF content.kind # "text" THEN {}
    ELSE LET words == findall(content.runs)
         IN {words[k] :
                k \in {j \in 1..Len(words) : is_valid_word(Lower(words[j]), dictionary)}}

\* _process_file: the except clause turns an unreadable file into the empty set
process_file(content, dictionary) ==
    IF content.kind # "text" THEN {}
    ELSE LET words == findall(content.runs)
         IN {Lower(words[k]) :
                k \in {j \in 1..Len(words) : is_valid_word(Lower(words[j]), dictionary)}}

\* str < str: the first differing character decides, a proper prefix is smaller
WordLess(u, v) ==
    \E k \in 1..(Len(u) + 1) :
        /\ \A j \in 1..(k - 1) : j <= Len(v) /\ u[j] = v[j]
        /\ k <= Len(v)
        /\ (k > Len(u) \/ u[k] < v[k])

\* sorted(all_words)
RECURSIVE sorted(_)
sorted(words) ==
    IF words = {} THEN <<>>
    ELSE LET least == CHOOSE x \in words : \A y \in words \ {x} : WordLess(x, y)
         IN <<least>> \o sorted(words \ {least})

\* {word: idx for idx, word in enumerate(sorted_words, start=0)}
EnumerateFromZero(sorted_words) ==
    [k \in 1..Len(sorted_words) |-> <<sorted_words[k], k - 1>>]

\* {word: idx for idx, word in enumerate(sorted_words, start=1)}
Enumerate(sorted_words) ==
    [k \in 1..Len(sorted_words) |-> <<sorted_words[k], k>>]

\* all_words = word_set for all_words.update(word_set)
UpdateOverwriting(words, word_set) == word_set

\* all_words.update(word_set)
Update(words, word_set) == words \cup word_set

\* the loop over results left at the first file that gave no word
RECURSIVE UpdateAllUntilEmpty(_, _, _)
UpdateAllUntilEmpty(words, results, k) ==
    IF k > Len(results) \/ results[k] = {} THEN words
    ELSE UpdateAllUntilEmpty(Update(words, results[k]), results, k + 1)

\* for word_set in results: all_words.update(word_set)
RECURSIVE UpdateAll(_, _, _)
UpdateAll(words, results, k) ==
    IF k > Len(results) THEN words
    ELSE UpdateAll(Update(words, results[k]), results, k + 1)

(* ---- the inputs of the lexicon stage ---- *)

W_x == <<120>>

\* the runs a cleaned text is made of: words, a capitalised word and a word
\* the gibberish filter rejects
RawRuns == {W_star, W_Star, W_nebula, W_xyzzyqq}

\* what <stem>.txt may be: absent, unreadable, or a text of up to MaxTokens runs
TextContents ==
    { [kind |-> "text", runs |-> r] : r \in SeqsUpTo(RawRuns, MaxTokens) }
    \cup { [kind |-> k, runs |-> <<>>] : k \in {"absent", "unreadable"} }

\* the texts tried for the second document: the example of the design, a
\* single letter, words of 26, 30 and 31 letters, and runs with a letter
\* outside a-z or a digit, which word_pattern skips
SampleTexts ==
    { [kind |-> "text", runs |-> r] :
        r \in { <<W_star, W_star, W_nebula, W_xyzzyqq>>,
                <<W_xyzzyqq, W_x, W_Star>>,
                <<W_ab, W_stab, W_abab30>>,
                <<W_abab26, W_abab31, W_cafe, W_ab1>> } }
    \cup { [kind |-> "absent", runs |-> <<>>] }

\* no dictionary (nltk missing), or a dictionary that knows xyzzyqq
Dictionaries == { {}, {W_xyzzyqq, W_star} }

\* the worker counts tried
WorkerCounts == {1, 2}

\* The directory holds a.txt, b.txt and vocabulary.txt, which _get_txt_files
\* leaves out.
InitLexicon ==
    /\ lx_cleaned_data_dir \in
          { [f \in {"a", "b", "vocabulary"} |->
                IF f = "a" THEN ca
                ELSE IF f = "b" THEN cb
                ELSE [kind |-> "text", runs |-> <<W_stab>>]] :
             ca \in TextContents, cb \in SampleTexts }
    /\ english_words \in Dictionaries
    /\ lx_batch_size = 1
    /\ num_workers = 1
    /\ lx_txt_files = <<>>
    /\ lx_i = 0
    /\ pool_next = 0
    /\ pool_running = {}
    /\ pool_results = <<>>
    /\ all_words = {}
    /\ lexicon_file = <<>>
    /\ lx_stats_file = <<>>
    /\ lx_pc = "idle"
    /\ lx_builds = 0
    /\ prev_lexicon_file = <<>>
    /\ lx_processed = <<>>
    /\ ForwardIdle
    /\ BackwardIdle
    /\ CallsIdle

(* ---- build ---- *)

\* A builder with batch_size = size runs build on a machine that gives
\* workers workers, and there is no text: the early return, no lexicon.
LexNoFilesWith(size, workers, listing) ==
    /\ lx_pc = "idle"
    /\ get_txt_files(listing) = <<>>
    /\ lx_batch_size' = size
    /\ num_workers' = workers
    /\ lx_pc' = "done"
    /\ UNCHANGED <<lx_cleaned_data_dir, english_words, lx_txt_files, lx_i, pool_next,
                   pool_running, pool_results, all_words, lexicon_file, lx_stats_file,
                   lx_builds, prev_lexicon_file, lx_processed>>
    /\ UNCHANGED <<fwVars, bwVars, callVars>>

LexNoFiles ==
    \E size \in 1..MaxBatchSize : \E workers \in WorkerCounts :
        \E listing \in Listings(TxtFiles(lx_cleaned_data_dir)) :
            LexNoFilesWith(size, workers, listing)

\* The same with texts: all_words = set(), and pool.map starts on the first
\* batch.  A second builder may be run over the same corpus once the first
\* has saved its lexicon.
LexStartWith(size, workers, listing) ==
    /\ lx_pc = "idle" \/ (lx_pc = "done" /\ lx_builds = 1)
    /\ get_txt_files(listing) # <<>>
    /\ lx_batch_size' = size
    /\ num_workers' = workers
    /\ lx_txt_files' = get_txt_files(listing)
    /\ lx_i' = 0
    /\ pool_next' = 0
    /\ pool_running' = {}
    /\ pool_results' = <<>>
    /\ all_words' = {}
    /\ lx_processed' = <<>>
    /\ lx_pc' = "map"
    /\ UNCHANGED <<lx_cleaned_data_dir, english_words, lexicon_file, lx_stats_file,
                   lx_builds, prev_lexicon_file>>
    /\ UNCHANGED <<fwVars, bwVars, callVars>>

LexStart ==
    \E size \in 1..MaxBatchSize : \E workers \in WorkerCounts :
        \E listing \in Listings(TxtFiles(lx_cleaned_data_dir)) :
            LexStartWith(size, workers, listing)

\* pool.map: an idle worker of the pool takes the next file of the batch
WorkerTake ==
    /\ lx_pc = "map"
    /\ pool_next < BatchLen(lx_txt_files, lx_i, lx_batch_size)
    /\ Cardinality(pool_running) < num_workers
    /\ pool_next' = pool_next + 1
    /\ pool_running' = pool_running \cup {pool_next + 1}
    /\ lx_processed' = Append(lx_processed, lx_txt_files[lx_i + pool_next + 1])
    /\ UNCHANGED <<lx_cleaned_data_dir, english_words, lx_batch_size, num_workers,
                   lx_txt_files, lx_i, pool_results, all_words, lexicon_file,
                   lx_stats_file, lx_pc, lx_builds, prev_lexicon_file>>
    /\ UNCHANGED <<fwVars, bwVars, callVars>>

\* pool.map: a worker returns the set of _process_file for its file; the
\* workers finish in any order
WorkerFinish(task) ==
    /\ lx_pc = "map"
    /\ task \in pool_running
    /\ pool_running' = pool_running \ {task}
    /\ pool_results' =
          [k \in (DOMAIN pool_results) \cup {task} |->
              IF k = task
              THEN process_file(lx_cleaned_data_dir[lx_txt_files[lx_i + task]],
                                english_words)
              ELSE pool_results[k]]
    /\ UNCHANGED <<lx_cleaned_data_dir, english_words, lx_batch_size, num_workers,
                   lx_txt_files, lx_i, pool_next, all_words, lexicon_file,
                   lx_stats_file, lx_pc, lx_builds, prev_lexicon_file, lx_processed>>
    /\ UNCHANGED <<fwVars, bwVars, callVars>>

\* pool.map has returned the results in the order of the batch: they are
\* added to all_words, and the loop goes to the next batch or ends
MergeBatch ==
    /\ lx_pc = "map"
    /\ DOMAIN pool_results = 1..BatchLen(lx_txt_files, lx_i, lx_batch_size)
    /\ all_words' = UpdateAll(all_words, pool_results, 1)
    /\ lx_i' = lx_i + lx_batch_size
    /\ pool_next' = 0
    /\ pool_running' = {}
    /\ pool_results' = <<>>
    /\ lx_pc' = IF lx_i + lx_batch_size < Len(lx_txt_files) THEN "map" ELSE "save"
    /\ UNCHANGED <<lx_cleaned_data_dir, english_words, lx_batch_size, num_workers,
                   lx_txt_files, lexicon_file, lx_stats_file, lx_builds,
                   prev_lexicon_file, lx_processed>>
    /\ UNCHANGED <<fwVars, bwVars, callVars>>

\* sorted(all_words), the ids from 1, lexicon.json and lexicon_stats.json
SaveLexicon ==
    /\ lx_pc = "save"
    /\ lexicon_file' = << Enumerate(sorted(all_words)) >>
    /\ lx_stats_file' = << [total_files |-> Len(lx_txt_files),
                            unique_words |-> Len(Enumerate(sorted(all_words)))] >>
    /\ lx_pc' = "done"
    /\ lx_builds' = lx_builds + 1
    /\ prev_lexicon_file' = lexicon_file
    /\ UNCHANGED <<lx_cleaned_data_dir, english_words, lx_batch_size, num_workers,
                   lx_txt_files, lx_i, pool_next, pool_running, pool_results, all_words,
                   lx_processed>>
    /\ UNCHANGED <<fwVars, bwVars, callVars>>

NextLexicon ==
    \/ LexNoFiles
    \/ LexStart
    \/ WorkerTake
    \/ \E task \in 1..MaxBatchSize : WorkerFinish(task)
    \/ MergeBatch
    \/ SaveLexicon

SpecLexicon == InitLexicon /\ [][NextLexicon]_vars

(* ---- _is_valid_word, called on its own ---- *)

\* the letters of the candidate words: two vowels and two consonants
CandidateLetters == {97, 101, 98, 99}

\* "bcbc", a word without a vowel
W_bcbc == <<98, 99, 98, 99>>

\* no dictionary, or one that holds bcbc
CandidateDictionaries == { {}, {W_bcbc, W_star} }

InitValidWord ==
    /\ vw_word \in SeqsUpTo(CandidateLetters, MaxCandidateLen)
    /\ vw_english_words \in CandidateDictionaries
    /\ vw_valid = FALSE
    /\ vw_pc = "called"
    /\ LexiconIdle
    /\ ForwardIdle
    /\ BackwardIdle
    /\ BarrelNameIdle

\* self._is_valid_word(word) returns
IsValidWord ==
    /\ vw_pc = "called"
    /\ vw_valid' = is_valid_word(vw_word, vw_english_words)
    /\ vw_pc' = "returned"
    /\ UNCHANGED <<vw_word, vw_english_words>>
    /\ UNCHANGED <<lxVars, fwVars, bwVars, bnVars>>

NextValidWord == IsValidWord

SpecValidWord == InitValidWord /\ [][NextValidWord]_vars

\* n characters in a row that are all vowels, or all not vowels
HasRun(w, vowel, n) ==
    \E i \in 1..(Len(w) - n + 1) : \A j \in i..(i + n - 1) : IsVowel(w[j]) = vowel

\* what the gibberish filter rejects
Rejected(w) ==
    \/ HasRun(w, FALSE, 6)
    \/ HasRun(w, TRUE, 5)
    \/ \E i \in 1..(Len(w) - 2) : w[i] = w[i + 1] /\ w[i] = w[i + 2]
    \/ (Len(w) >= 4 /\ \A i \in 1..Len(w) : ~IsVowel(w[i]))

\* C13: a lower-case alphabetic word of 2 to 30 letters is accepted iff it is
\* in the dictionary or has no run of more than 5 characters that are not
\* vowels, no run of more than 4 vowels, no character three times in a row,
\* and, when longer than 3, a vowel; with an empty dictionary the filter
\* alone decides.
C13_AcceptancePredicate ==
    (vw_pc = "returned" /\ Len(vw_word) >= 2 /\ Len(vw_word) <= 30) =>
        /\ vw_valid <=> (vw_word \in vw_english_words \/ ~Rejected(vw_word))
        /\ vw_english_words = {} => (vw_valid <=> ~Rejected(vw_word))

\* C13 happens: without a dictionary, a word with six consonants in a row
\* and nothing else against it was rejected
C13_Witness ==
    /\ vw_pc = "returned"
    /\ vw_english_words = {}
    /\ vw_word = <<97, 98, 99, 98, 99, 98, 99>>
    /\ ~vw_valid

(* ---- properties of the lexicon stage ---- *)

\* a build has saved lexicon.json
LexiconSaved == lx_pc = "done" /\ lexicon_file # <<>>

\* the texts of the corpus that can be read
ReadableTexts(dir) == {f \in DOMAIN dir : f # "vocabulary" /\ dir[f].kind = "text"}

\* the accepted words of the corpus: the lower-case forms of the runs of 2 to
\* 30 letters of its readable texts that _is_valid_word lets through
AcceptedWords(dir, dictionary) ==
    { w \in UNION { {Lower(dir[f].runs[k]) : k \in 1..Len(dir[f].runs)} :
                      f \in ReadableTexts(dir) } :
        \E f \in ReadableTexts(dir) : \E k \in 1..Len(dir[f].runs) :
            /\ Lower(dir[f].runs[k]) = w
            /\ Len(dir[f].runs[k]) >= MinWordLen
            /\ Len(dir[f].runs[k]) <= MaxWordLen
            /\ \A c \in 1..Len(dir[f].runs[k]) : IsAsciiLetter(dir[f].runs[k][c])
            /\ is_valid_word(w, dictionary) }

\* the place of a word among a set of words in lexicographic order, from 1
Rank(w, words) == 1 + Cardinality({u \in words : WordLess(u, w)})

\* C9: in the lexicon a build saves, the ids are exactly 1..N, no word and
\* no id appears twice, the id of a word is its place among the accepted
\* words in lexicographic order, and u < v implies id(u) < id(v).
C9_DenseSortedIds ==
    LexiconSaved =>
        LET lexicon == lexicon_file[1]
            N == Len(lexicon)
        IN /\ {lexicon[k][2] : k \in 1..N} = 1..N
           /\ \A i, j \in 1..N :
                 i # j => lexicon[i][1] # lexicon[j][1] /\ lexicon[i][2] # lexicon[j][2]
           /\ DictKeys(lexicon) = all_words
           /\ \A k \in 1..N : lexicon[k][2] = Rank(lexicon[k][1], all_words)
           /\ \A i, j \in 1..N :
                 WordLess(lexicon[i][1], lexicon[j][1]) => lexicon[i][2] < lexicon[j][2]

\* C9 happens: a lexicon of at least three words has been saved
C9_Witness ==
    /\ LexiconSaved
    /\ Len(lexicon_file[1]) >= 3

\* C10: whatever the worker count, the batch size, the order of the listing
\* and the order in which the workers finish, the saved mapping gives every
\* accepted word of the corpus its rank and nothing else, and a second build
\* over the same corpus saves the same file.
C10_DeterministicLexicon ==
    LexiconSaved =>
        LET accepted == AcceptedWords(lx_cleaned_data_dir, english_words)
        IN /\ AsMap(lexicon_file[1]) = [w \in accepted |-> Rank(w, accepted)]
           /\ Len(lexicon_file[1]) = Cardinality(accepted)
           /\ (lx_builds = 2 => lexicon_file = prev_lexicon_file)

\* C10 happens: a second build, with two workers on one batch of two files
\* listed b first, both files with accepted words the other lacks
C10_Witness ==
    /\ LexiconSaved
    /\ lx_builds = 2
    /\ num_workers = 2
    /\ lx_batch_size = 2
    /\ lx_txt_files = <<"b", "a">>
    /\ process_file(lx_cleaned_data_dir["a"], english_words)
          \ process_file(lx_cleaned_data_dir["b"], english_words) # {}
    /\ process_file(lx_cleaned_data_dir["b"], english_words)
          \ process_file(lx_cleaned_data_dir["a"], english_words) # {}

\* [a-z]
IsLowerLetter(c) == c >= 97 /\ c <= 122

\* C11: every word of a saved lexicon is made of 2 to 30 letters a-z, and
\* every id is in 1..N, N the number of entries.
C11_LexiconWordShape ==
    LexiconSaved =>
        LET lexicon == lexicon_file[1]
        IN \A k \in 1..Len(lexicon) :
              /\ Len(lexicon[k][1]) >= 2
              /\ Len(lexicon[k][1]) <= 30
              /\ \A c \in 1..Len(lexicon[k][1]) : IsLowerLetter(lexicon[k][1][c])
              /\ lexicon[k][2] >= 1
              /\ lexicon[k][2] <= Len(lexicon)

\* C11 happens: the corpus held a capitalised word, a word of 30 letters, and
\* runs the pattern skips (31 letters, a letter outside a-z, a digit), and a
\* lexicon with the 30-letter word was saved
C11_Witness ==
    /\ LexiconSaved
    /\ W_abab30 \in DictKeys(lexicon_file[1])
    /\ \E f \in ReadableTexts(lx_cleaned_data_dir) :
          \E k \in 1..Len(lx_cleaned_data_dir[f].runs) :
              lx_cleaned_data_dir[f].runs[k] = W_Star
    /\ W_star \in DictKeys(lexicon_file[1])

\* the largest length lexicon_tester.py lets a lexicon word have
TesterMaxLen == 25

\* C12: every word of a saved lexicon has 2 to 25 characters.
C12_LengthAtMost25 ==
    LexiconSaved =>
        \A k \in 1..Len(lexicon_file[1]) :
            /\ Len(lexicon_file[1][k][1]) >= MinWordLen
            /\ Len(lexicon_file[1][k][1]) <= TesterMaxLen

(* ------------------------------------------------------------------ *)
(* ForwardIndexBuilder (foward_indexing.py)                            *)
(* ------------------------------------------------------------------ *)

\* the loop "for position, word in enumerate(words)" with enumerate(words, 1)
RECURSIVE IndexWordsLoopFromOne(_, _, _, _)
IndexWordsLoopFromOne(words, lexicon, k, acc) ==
    IF k > Len(words) THEN acc
    ELSE IF Lower(words[k]) \in DictKeys(lexicon)
         THEN IndexWordsLoopFromOne(words, lexicon, k + 1,
                 [acc EXCEPT !.forward_index =
                     Append(@, <<DictGet(lexicon, Lower(words[k])), k>>)])
         ELSE IndexWordsLoopFromOne(words, lexicon, k + 1,
                 [acc EXCEPT !.words_skipped = @ + 1])

\* the loop "for position, word in enumerate(words)": words[k] has position k - 1
RECURSIVE IndexWordsLoop(_, _, _, _)
IndexWordsLoop(words, lexicon, k, acc) ==
    IF k > Len(words) THEN acc
    ELSE LET word_lower == Lower(words[k])
             position == k - 1
         IN IF word_lower \in DictKeys(lexicon)
            THEN IndexWordsLoop(words, lexicon, k + 1,
                    [acc EXCEPT !.forward_index =
                        Append(@, <<DictGet(lexicon, word_lower), position>>)])
            ELSE IndexWordsLoop(words, lexicon, k + 1,
                    [acc EXCEPT !.words_skipped = @ + 1])

\* the same with the positions counted from 1
IndexWordsFromOne(words, lexicon) ==
    IndexWordsLoopFromOne(words, lexicon, 1, [forward_index |-> <<>>, words_skipped |-> 0])

\* forward_index and words_skipped of _process_single_file
IndexWords(words, lexicon) ==
    IndexWordsLoop(words, lexicon, 1, [forward_index |-> <<>>, words_skipped |-> 0])

\* the file _process_single_file writes, as json.load reads it back
RecordFile(doc_name, forward_index) ==
    [kind |-> "record", doc |-> doc_name, entries |-> forward_index]

\* json.dump(self.stats)
StatsFile(stats) == [kind |-> "stats", doc |-> "", entries |-> <<stats>>]

(* ---- the inputs of the forward stage ---- *)

ForwardLexicons ==
    { <<(<<W_nebula, 2>>), (<<W_star, 1>>)>>,
      <<(<<W_nebula, 1>>), (<<W_star, 2>>), (<<W_xyzzyqq, 3>>)>>,
      <<>> }

InitialStats ==
    [files_processed |-> 0, total_word_positions |-> 0, words_not_in_lexicon |-> 0]

\* The directory holds a.txt, a second document that is b.txt or
\* indexing_stats.txt, and vocabulary.txt, which _get_txt_files leaves out.
InitForward ==
    /\ cleaned_data_dir \in
          UNION { { [f \in {"a", second, "vocabulary"} |->
                        IF f = "a" THEN ca
                        ELSE IF f = second THEN cb
                        ELSE [kind |-> "text", runs |-> <<W_star>>]] :
                     ca \in TextContents, cb \in SampleTexts } :
                  second \in {"b", "indexing_stats"} }
    /\ fw_lexicon \in ForwardLexicons
    /\ fw_lexicon_path = <<fw_lexicon>>
    /\ fw_batch_size = 1
    /\ txt_files = <<>>
    /\ fw_i = 0
    /\ fw_j = 0
    /\ fw_successful = 0
    /\ fw_failed = 0
    /\ fw_stats = InitialStats
    /\ fw_output = <<>>
    /\ fw_results = <<>>
    /\ fw_memory = <<>>
    /\ fw_pc = "idle"
    /\ LexiconIdle
    /\ BackwardIdle
    /\ CallsIdle

(* ---- build_indexes ---- *)

\* _process_single_file: open or read raises on an unreadable file and the
\* except clause returns False; otherwise the record is written
process_single_file(stem, content, lexicon) ==
    IF content.kind # "text"
    THEN [ok |-> FALSE, doc_name |-> stem, forward_index |-> <<>>, words_skipped |-> 0]
    ELSE LET r == IndexWords(findall(content.runs), lexicon)
         IN [ok |-> TRUE, doc_name |-> stem,
             forward_index |-> r.forward_index, words_skipped |-> r.words_skipped]

\* open(output_file, 'w') and the writes: the file of that name is replaced
WriteFile(dir, name, content) ==
    [f \in (DOMAIN dir) \cup {name} |-> IF f = name THEN content ELSE dir[f]]

\* A builder with batch_size = size runs build_indexes and there is no text
\* to process: the early return.
IndexNoFilesWith(size, listing) ==
    /\ fw_pc = "idle"
    /\ get_txt_files(listing) = <<>>
    /\ fw_batch_size' = size
    /\ fw_pc' = "done"
    /\ UNCHANGED <<cleaned_data_dir, fw_lexicon_path, fw_lexicon,
                   txt_files, fw_i, fw_j, fw_successful,
                   fw_failed, fw_stats, fw_output, fw_results, fw_memory>>
    /\ UNCHANGED <<lxVars, bwVars, callVars>>

IndexNoFiles ==
    \E size \in 1..MaxBatchSize :
        \E listing \in Listings(TxtFiles(cleaned_data_dir)) :
            IndexNoFilesWith(size, listing)

\* The same with texts to process: the batch loop starts.
IndexStartWith(size, listing) ==
    /\ fw_pc = "idle"
    /\ get_txt_files(listing) # <<>>
    /\ fw_batch_size' = size
    /\ txt_files' = get_txt_files(listing)
    /\ fw_i' = 0
    /\ fw_j' = 0
    /\ fw_successful' = 0
    /\ fw_failed' = 0
    /\ fw_pc' = "indexing"
    /\ UNCHANGED <<cleaned_data_dir, fw_lexicon_path, fw_lexicon,
                   fw_stats, fw_output, fw_results,
                   fw_memory>>
    /\ UNCHANGED <<lxVars, bwVars, callVars>>

IndexStart ==
    \E size \in 1..MaxBatchSize :
        \E listing \in Listings(TxtFiles(cleaned_data_dir)) :
            IndexStartWith(size, listing)

\* content = f.read() and words = findall(content): the locals of
\* _process_single_file come to hold the document
Hold(memory, doc, words) ==
    [d \in (DOMAIN memory) \cup {doc} |-> IF d = doc THEN words ELSE memory[d]]

\* the locals kept after the return
ReleaseNothing(memory, doc) == memory

\* del content, words, forward_index, output_data, and the return
Release(memory, doc) ==
    IF (DOMAIN memory) \ {doc} = {} THEN <<>>
    ELSE [d \in (DOMAIN memory) \ {doc} |-> memory[d]]

\* The first statements of _process_single_file on a readable file: it is
\* read and split into words.
ReadSingleFile ==
    /\ fw_pc = "indexing"
    /\ fw_i < Len(txt_files)
    /\ LET txt_file == txt_files[fw_i + fw_j + 1]
       IN /\ txt_file \notin DOMAIN fw_memory
          /\ cleaned_data_dir[txt_file].kind = "text"
          /\ fw_memory' = Hold(fw_memory, txt_file,
                               findall(cleaned_data_dir[txt_file].runs))
    /\ UNCHANGED <<cleaned_data_dir, fw_lexicon_path, fw_lexicon,
                   fw_batch_size, txt_files, fw_i, fw_j,
                   fw_successful, fw_failed, fw_stats, fw_output, fw_results, fw_pc>>
    /\ UNCHANGED <<lxVars, bwVars, callVars>>

\* The rest of one iteration of "for txt_file in batch": the record is
\* written and the locals are deleted, or the read has failed and False is
\* returned; then the step of the outer loop to the next batch after the last
\* file of a batch.
ProcessSingleFile ==
    /\ fw_pc = "indexing"
    /\ fw_i < Len(txt_files)
    /\ LET txt_file == txt_files[fw_i + fw_j + 1]
           r == process_single_file(txt_file, cleaned_data_dir[txt_file], fw_lexicon)
       IN /\ r.ok => txt_file \in DOMAIN fw_memory
          /\ fw_memory' = IF r.ok THEN Release(fw_memory, txt_file) ELSE fw_memory
          /\ fw_output' = IF r.ok
                          THEN WriteFile(fw_output, r.doc_name,
                                         RecordFile(r.doc_name, r.forward_index))
                          ELSE fw_output
          /\ fw_successful' = IF r.ok THEN fw_successful + 1 ELSE fw_successful
          /\ fw_failed' = IF r.ok THEN fw_failed ELSE fw_failed + 1
          /\ fw_results' = Append(fw_results, <<txt_file, r.ok>>)
    /\ IF fw_j + 1 < BatchLen(txt_files, fw_i, fw_batch_size)
       THEN fw_j' = fw_j + 1 /\ fw_i' = fw_i
       ELSE fw_j' = 0 /\ fw_i' = fw_i + fw_batch_size
    /\ UNCHANGED <<cleaned_data_dir, fw_lexicon_path, fw_lexicon,
                   fw_batch_size, txt_files, fw_stats, fw_pc>>
    /\ UNCHANGED <<lxVars, bwVars, callVars>>

\* After the last batch: the stats are updated and written to
\* indexing_stats.json; the summary then divides elapsed by successful, which
\* raises ZeroDivisionError when no file succeeded.
FinishIndexing ==
    /\ fw_pc = "indexing"
    /\ fw_i >= Len(txt_files)
    /\ fw_stats' = [fw_stats EXCEPT !.files_processed = fw_successful]
    /\ fw_output' = WriteFile(fw_output, "indexing_stats", StatsFile(fw_stats'))
    /\ fw_pc' = IF fw_successful = 0 THEN "raised" ELSE "done"
    /\ UNCHANGED <<cleaned_data_dir, fw_lexicon_path, fw_lexicon,
                   fw_batch_size, txt_files, fw_i, fw_j,
                   fw_successful, fw_failed, fw_results, fw_memory>>
    /\ UNCHANGED <<lxVars, bwVars, callVars>>

NextForward ==
    \/ IndexNoFiles
    \/ IndexStart
    \/ ReadSingleFile
    \/ ProcessSingleFile
    \/ FinishIndexing

SpecForward == InitForward /\ [][NextForward]_vars

(* ------------------------------------------------------------------ *)
(* Properties of the forward stage                                     *)
(* ------------------------------------------------------------------ *)

\* the token stream of a document: the words the builder finds in its text
TokenStream(stem) == findall(cleaned_data_dir[stem].runs)

\* the 0-based positions of the tokens whose lowercase form is a lexicon word
ResolvedPositions(t, lexicon) ==
    {p \in 0..(Len(t) - 1) :
        \E j \in 1..Len(lexicon) : lexicon[j][1] = Lower(t[p + 1])}

\* the documents _process_single_file has returned True for
IndexedDocs == {fw_results[k][1] : k \in {j \in 1..Len(fw_results) : fw_results[j][2]}}

\* C7: the record written for a document with token stream t is the sequence
\* of the pairs [L[t[p]], p], p the 0-based position in t, for exactly the
\* positions whose token is in the lexicon L, in increasing p.
C7_ForwardIndexFidelity ==
    \A d \in IndexedDocs :
        /\ d \in DOMAIN fw_output
        /\ fw_output[d].kind = "record" =>
              LET t == TokenStream(d)
                  pairs == fw_output[d].entries
              IN /\ fw_output[d].doc = d
                 /\ \A i \in 1..Len(pairs) : Len(pairs[i]) = 2
                 /\ \A i \in 1..(Len(pairs) - 1) : pairs[i][2] < pairs[i + 1][2]
                 /\ {pairs[i][2] : i \in 1..Len(pairs)} = ResolvedPositions(t, fw_lexicon)
                 /\ \A i \in 1..Len(pairs) :
                       \E j \in 1..Len(fw_lexicon) :
                           fw_lexicon[j] = <<Lower(t[pairs[i][2] + 1]), pairs[i][1]>>

\* C7's case: the tokens star, star, nebula, xyzzyqq with the lexicon
\* {star: 1, nebula: 2} were indexed as [[1,0],[1,1],[2,2]]
C7_Witness ==
    \E d \in IndexedDocs :
        /\ TokenStream(d) = <<W_star, W_star, W_nebula, W_xyzzyqq>>
        /\ fw_output[d].kind = "record"
        /\ fw_output[d].entries = << <<1, 0>>, <<1, 1>>, <<2, 2>> >>

\* the tokens of the indexed documents that are not in the lexicon
RECURSIVE UnresolvedIn(_)
UnresolvedIn(docs) ==
    IF docs = {} THEN 0
    ELSE LET d == CHOOSE x \in docs : TRUE
             t == TokenStream(d)
         IN (Len(t) - Cardinality(ResolvedPositions(t, fw_lexicon)))
            + UnresolvedIn(docs \ {d})

\* C8: after the forward stage the counter words_not_in_lexicon of the stats
\* is the number of tokens of the indexed documents that were not in the lexicon.
C8_UnresolvedCounted ==
    fw_pc \in {"done", "raised"} =>
        fw_stats.words_not_in_lexicon = UnresolvedIn(IndexedDocs)

\* the stage has gone through all its files, normally or not
ForwardStageOver == fw_pc \in {"done", "raised"} /\ txt_files # <<>>

\* C19: the stats a stage persists at its end hold the number of units
\* processed and, in a field of their own, the number of units that failed,
\* and the two add up to the number of input units.
C19_ProcessedAndFailedPersisted ==
    ForwardStageOver =>
        /\ "indexing_stats" \in DOMAIN fw_output
        /\ fw_output["indexing_stats"].kind = "stats"
        /\ LET stats == fw_output["indexing_stats"].entries[1]
           IN \E field \in DOMAIN stats \ {"files_processed", "total_word_positions",
                                           "words_not_in_lexicon"} :
                  stats.files_processed + stats[field] = Len(txt_files)

\* C20: whichever documents fail, build_indexes raises nothing, and when it
\* is over every document that did not fail has its record in the output
\* (the document indexing_stats aside, whose file the stats replace).
C20_SurvivesDocumentFailures ==
    /\ fw_pc # "raised"
    /\ fw_pc = "done" =>
          \A d \in IndexedDocs \ {"indexing_stats"} :
              d \in DOMAIN fw_output /\ fw_output[d].kind = "record"

(* ------------------------------------------------------------------ *)
(* BackwardIndexBuilder (backward_indexing.py)                         *)
(* ------------------------------------------------------------------ *)

\* self.id_to_word: of two words with one id the later one stays
IdToWord(lexicon) ==
    [id \in {lexicon[k][2] : k \in 1..Len(lexicon)} |->
        lexicon[CHOOSE k \in 1..Len(lexicon) :
                    /\ lexicon[k][2] = id
                    /\ \A j \in (k + 1)..Len(lexicon) : lexicon[j][2] # id][1]]

\* _get_barrel_name without the padding: word[:3].lower()
get_barrel_name_unpadded(word) ==
    Lower(SubSeq(word, 1, IF Len(word) < 3 THEN Len(word) ELSE 3))

\* _get_barrel_name: (word + 'aaa')[:3].lower()
get_barrel_name(word) == Lower(SubSeq(word \o <<97, 97, 97>>, 1, 3))

\* _get_forward_index_files for one enumeration order of the directory
get_forward_index_files(listing) ==
    SelectSeq(listing, LAMBDA f : f # "indexing_stats")

\* AppendPosting with "= [position]" for ".append(position)"
AppendPostingOverwriting(index, word_id, doc_name, position) ==
    DictPut(index, word_id,
            DictPut(DictGetOr(index, word_id, <<>>), doc_name, <<position>>))

\* AppendPosting with a new document map for the word id at every pair
AppendPostingFreshDocs(index, word_id, doc_name, position) ==
    LET positions == DictGetOr(DictGetOr(index, word_id, <<>>), doc_name, <<>>)
    IN DictPut(index, word_id, << <<doc_name, Append(positions, position)>> >>)

\* AppendPosting that looks up self.inverted_index[word_id][doc_name], which
\* makes the defaultdict entries, and appends nothing
AppendPostingTouching(index, word_id, doc_name, position) ==
    LET doc_positions == DictGetOr(index, word_id, <<>>)
        positions == DictGetOr(doc_positions, doc_name, <<>>)
    IN DictPut(index, word_id, DictPut(doc_positions, doc_name, positions))

\* AppendPosting with ".insert(0, position)" for ".append(position)"
AppendPostingInFront(index, word_id, doc_name, position) ==
    LET doc_positions == DictGetOr(index, word_id, <<>>)
        positions == DictGetOr(doc_positions, doc_name, <<>>)
    IN DictPut(index, word_id,
               DictPut(doc_positions, doc_name, <<position>> \o positions))

\* self.inverted_index[word_id][doc_name].append(position)
AppendPosting(index, word_id, doc_name, position) ==
    LET doc_positions == DictGetOr(index, word_id, <<>>)
        positions == DictGetOr(doc_positions, doc_name, <<>>)
    IN DictPut(index, word_id,
               DictPut(doc_positions, doc_name, Append(positions, position)))

\* the loop "for word_id, position in forward_index": an element that is no
\* pair raises, and what was appended before it stays in the index
RECURSIVE FlipEntries(_, _, _, _)
FlipEntries(index, doc_name, forward_index, k) ==
    IF k > Len(forward_index) THEN [ok |-> TRUE, index |-> index]
    ELSE IF Len(forward_index[k]) # 2 THEN [ok |-> FALSE, index |-> index]
    ELSE FlipEntries(
            AppendPosting(index, forward_index[k][1], doc_name, forward_index[k][2]),
            doc_name, forward_index, k + 1)

\* _process_forward_index with the index emptied when a file fails
process_forward_index_discarding(index, content) ==
    IF content.kind # "record" THEN [ok |-> FALSE, index |-> <<>>]
    ELSE LET r == FlipEntries(index, content.doc, content.entries, 1)
         IN IF r.ok THEN r ELSE [ok |-> FALSE, index |-> <<>>]

\* _process_forward_index: open and json.load raise on an unreadable file or
\* invalid JSON, list(data.keys())[0] on a JSON value of the wrong shape
process_forward_index(index, content) ==
    IF content.kind # "record" THEN [ok |-> FALSE, index |-> index]
    ELSE FlipEntries(index, content.doc, content.entries, 1)

\* the first loop of _save_barrels with
\* barrels[barrel_name] = {str(word_id): dict(doc_positions)}
RECURSIVE OrganizeBarrelsOverwriting(_, _, _, _)
OrganizeBarrelsOverwriting(barrels, index, id_to_word, k) ==
    IF k > Len(index) THEN barrels
    ELSE LET word_id == index[k][1]
             doc_positions == index[k][2]
         IN IF word_id \notin DOMAIN id_to_word
            THEN OrganizeBarrelsOverwriting(barrels, index, id_to_word, k + 1)
            ELSE OrganizeBarrelsOverwriting(
                    DictPut(barrels, get_barrel_name(id_to_word[word_id]),
                            << <<ToString(word_id), doc_positions>> >>),
                    index, id_to_word, k + 1)

\* the first loop of _save_barrels with break for continue
RECURSIVE OrganizeBarrelsStopping(_, _, _, _)
OrganizeBarrelsStopping(barrels, index, id_to_word, k) ==
    IF k > Len(index) THEN barrels
    ELSE LET word_id == index[k][1]
             doc_positions == index[k][2]
         IN IF word_id \notin DOMAIN id_to_word
            THEN barrels
            ELSE LET barrel_name == get_barrel_name(id_to_word[word_id])
                     barrel_data == DictGetOr(barrels, barrel_name, <<>>)
                 IN OrganizeBarrelsStopping(
                        DictPut(barrels, barrel_name,
                                DictPut(barrel_data, ToString(word_id), doc_positions)),
                        index, id_to_word, k + 1)

\* the first loop of _save_barrels: barrels[barrel_name][str(word_id)] = ...
RECURSIVE OrganizeBarrels(_, _, _, _)
OrganizeBarrels(barrels, index, id_to_word, k) ==
    IF k > Len(index) THEN barrels
    ELSE LET word_id == index[k][1]
             doc_positions == index[k][2]
         IN IF word_id \notin DOMAIN id_to_word
            THEN OrganizeBarrels(barrels, index, id_to_word, k + 1)
            ELSE LET barrel_name == get_barrel_name(id_to_word[word_id])
                     barrel_data == DictGetOr(barrels, barrel_name, <<>>)
                 IN OrganizeBarrels(
                        DictPut(barrels, barrel_name,
                                DictPut(barrel_data, ToString(word_id), doc_positions)),
                        index, id_to_word, k + 1)

\* the second loop of _save_barrels: one file per barrel that is not empty,
\* written over the file of that name; other files of output_dir stay
WriteBarrels(files, barrels) ==
    LET written == {b \in DictKeys(barrels) : DictGet(barrels, b) # <<>>}
    IN [b \in (DOMAIN files) \cup written |->
            IF b \in written THEN DictGet(barrels, b) ELSE files[b]]

\* saved_count of _save_barrels
SavedCount(barrels) ==
    Cardinality({b \in DictKeys(barrels) : DictGet(barrels, b) # <<>>})

\* _save_barrels
save_barrels(files, index, lexicon) ==
    WriteBarrels(files, OrganizeBarrels(<<>>, index, IdToWord(lexicon), 1))


(* ---- _get_barrel_name, called on its own ---- *)

\* the letters of the words: a, b, z and the capital N
BarrelLetters == {97, 98, 122, 78}

InitBarrelName ==
    /\ bn_word \in SeqsUpTo(BarrelLetters, MaxCandidateLen) \cup {W_nebula, W_Star}
    /\ bn_name = <<>>
    /\ bn_pc = "called"
    /\ LexiconIdle
    /\ ForwardIdle
    /\ BackwardIdle
    /\ ValidWordIdle

\* self._get_barrel_name(word) returns
GetBarrelName ==
    /\ bn_pc = "called"
    /\ bn_name' = get_barrel_name(bn_word)
    /\ bn_pc' = "returned"
    /\ UNCHANGED bn_word
    /\ UNCHANGED <<lxVars, fwVars, bwVars, vwVars>>

NextBarrelName == GetBarrelName

SpecBarrelName == InitBarrelName /\ [][NextBarrelName]_vars

\* C14: the barrel key of a word has three characters: the lower-case forms
\* of the word's first three characters, and 'a' where the word has none;
\* nebula gives neb, a gives aaa, ab gives aba.  The word is all it is
\* computed from.
C14_BarrelKeyOfWordText ==
    bn_pc = "returned" =>
        /\ Len(bn_name) = 3
        /\ \A i \in 1..3 :
              bn_name[i] = IF i > Len(bn_word) THEN 97
                           ELSE IF bn_word[i] >= 65 /\ bn_word[i] <= 90
                                THEN bn_word[i] + 32
                                ELSE bn_word[i]
        /\ bn_word = W_nebula => bn_name = <<110, 101, 98>>
        /\ bn_word = <<97>> => bn_name = <<97, 97, 97>>
        /\ bn_word = W_ab => bn_name = <<97, 98, 97>>

\* C14 happens: the key of ab was computed and is aba
C14_Witness ==
    /\ bn_pc = "returned"
    /\ bn_word = W_ab
    /\ bn_name = <<97, 98, 97>>

(* ---- the inputs of the backward stage ---- *)

\* the word ids a forward-index record may hold
RecordWordIds == {1, 2}

\* the lexicons the builder is run with: two words of one barrel, two words of
\* two barrels, and a lexicon in which id 2 has no entry
BackwardLexicons ==
    { <<(<<W_stab, 1>>), (<<W_star, 2>>)>>,
      <<(<<W_nebula, 1>>), (<<W_star, 2>>)>>,
      <<(<<W_ab, 1>>)>> }

\* The elements of a record, from one choice per token position p: 0 for a
\* token that did not resolve (no pair), a word id w for the pair [w, p], and
\* -1 for a malformed element (a list of one number, not a pair).
RECURSIVE EntriesOf(_, _)
EntriesOf(choice, p) ==
    IF p > Len(choice) THEN <<>>
    ELSE (IF choice[p] = 0 THEN <<>>
          ELSE IF choice[p] = -1 THEN << <<p - 1>> >>
          ELSE << <<choice[p], p - 1>> >>) \o EntriesOf(choice, p + 1)

\* what <stem>.json may hold: nothing, a record keyed by the stem (as
\* _process_single_file writes it), the same with malformed elements, or a
\* file that cannot be read, is not JSON, or is JSON of another shape
FileContents(stem) ==
    { [kind |-> "record", doc |-> stem, entries |-> EntriesOf(c, 1)] :
        c \in [1..MaxTokens -> RecordWordIds \cup {0, -1}] }
    \cup { [kind |-> k, doc |-> "", entries |-> <<>>] :
            k \in {"absent", "unreadable", "invalid_json", "wrong_shape"} }

\* the contents tried for the second file, beside every content of the first
SampleContents(stem) ==
    { [kind |-> "record", doc |-> stem, entries |-> e] :
        e \in { <<>>,
                << <<1, 0>> >>,
                << <<2, 0>>, <<1, 1>> >>,
                << <<1, 0>>, <<1>> >>,
                << <<0>>, <<1, 1>> >> } }
    \cup { [kind |-> k, doc |-> "", entries |-> <<>>] : k \in {"absent", "invalid_json"} }

StatsContent == [kind |-> "stats", doc |-> "", entries |-> <<>>]

\* the *.json files present in forward_index_dir
JsonFiles(dir) == {f \in DOMAIN dir : dir[f].kind # "absent"}

InitBackward ==
    /\ forward_index_dir \in
          {[f \in {"a", "b", "indexing_stats"} |->
                IF f = "a" THEN ca ELSE IF f = "b" THEN cb ELSE StatsContent] :
             ca \in FileContents("a"), cb \in SampleContents("b")}
    /\ bw_lexicon \in BackwardLexicons
    /\ bw_lexicon_path = <<bw_lexicon>>
    /\ batch_size = 1
    /\ forward_files = <<>>
    /\ bw_i = 0
    /\ bw_j = 0
    /\ inverted_index = <<>>
    /\ successful = 0
    /\ processed = <<>>
    /\ barrel_files = <<>>
    /\ bw_stats_file = <<>>
    /\ bw_pc = "idle"
    /\ builds = 0
    /\ prev_barrels = <<>>
    /\ saved = <<>>
    /\ prev_saved = <<>>
    /\ LexiconIdle
    /\ ForwardIdle
    /\ CallsIdle

(* ---- build_inverted_index ---- *)

\* A builder with batch_size = size runs build_inverted_index and glob()
\* enumerates nothing but the stats file: the early return.
BuildNoFilesWith(size, listing) ==
    /\ bw_pc \in {"idle", "done"}
    /\ builds < 2
    /\ get_forward_index_files(listing) = <<>>
    /\ batch_size' = size
    /\ processed' = <<>>
    /\ bw_pc' = "done"
    /\ builds' = builds + 1
    /\ prev_barrels' = barrel_files
    /\ saved' = <<>>
    /\ prev_saved' = saved
    /\ UNCHANGED <<lxVars, fwVars, callVars>>
    /\ UNCHANGED <<forward_index_dir, bw_lexicon_path, bw_lexicon,
                   forward_files, bw_i, bw_j,
                   inverted_index, successful, barrel_files, bw_stats_file>>

\* The same with files to process: the batch loop starts.
BuildStartWith(size, listing) ==
    /\ bw_pc \in {"idle", "done"}
    /\ builds < 2
    /\ get_forward_index_files(listing) # <<>>
    /\ batch_size' = size
    /\ forward_files' = get_forward_index_files(listing)
    /\ bw_i' = 0
    /\ bw_j' = 0
    /\ successful' = 0
    /\ processed' = <<>>
    /\ bw_pc' = "aggregating"
    /\ UNCHANGED <<lxVars, fwVars, callVars>>
    /\ UNCHANGED <<forward_index_dir, bw_lexicon_path, bw_lexicon,
                   inverted_index, barrel_files,
                   bw_stats_file, builds, prev_barrels, saved, prev_saved>>

\* ProcessForwardFile with _save_barrels called at the end of every batch
ProcessForwardFileFlushing ==
    /\ bw_pc = "aggregating"
    /\ bw_i < Len(forward_files)
    /\ LET forward_file == forward_files[bw_i + bw_j + 1]
           r == process_forward_index(inverted_index, forward_index_dir[forward_file])
       IN /\ inverted_index' = r.index
          /\ successful' = IF r.ok THEN successful + 1 ELSE successful
          /\ processed' = Append(processed, <<forward_file, r.ok>>)
          /\ barrel_files' =
                IF bw_j + 1 < BatchLen(forward_files, bw_i, batch_size)
                THEN barrel_files
                ELSE save_barrels(barrel_files, r.index, bw_lexicon)
    /\ IF bw_j + 1 < BatchLen(forward_files, bw_i, batch_size)
       THEN bw_j' = bw_j + 1 /\ bw_i' = bw_i
       ELSE bw_j' = 0 /\ bw_i' = bw_i + batch_size
    /\ UNCHANGED <<lxVars, fwVars, callVars>>
    /\ UNCHANGED <<forward_index_dir, bw_lexicon_path, bw_lexicon, batch_size,
                   forward_files, bw_stats_file, bw_pc, builds, prev_barrels,
                   saved, prev_saved>>

\* One iteration of "for forward_file in batch", and the step of the outer
\* loop to the next batch after the last file of a batch.
ProcessForwardFile ==
    /\ bw_pc = "aggregating"
    /\ bw_i < Len(forward_files)
    /\ LET forward_file == forward_files[bw_i + bw_j + 1]
           r == process_forward_index(inverted_index, forward_index_dir[forward_file])
       IN /\ inverted_index' = r.index
          /\ successful' = IF r.ok THEN successful + 1 ELSE successful
          /\ processed' = Append(processed, <<forward_file, r.ok>>)
    /\ IF bw_j + 1 < BatchLen(forward_files, bw_i, batch_size)
       THEN bw_j' = bw_j + 1 /\ bw_i' = bw_i
       ELSE bw_j' = 0 /\ bw_i' = bw_i + batch_size
    /\ UNCHANGED <<lxVars, fwVars, callVars>>
    /\ UNCHANGED <<forward_index_dir, bw_lexicon_path, bw_lexicon,
                   batch_size, forward_files,
                   barrel_files, bw_stats_file, bw_pc, builds, prev_barrels,
                   saved, prev_saved>>

\* the index left as it is
clear_nothing(index) == index

\* self.inverted_index.clear()
clear(index) == <<>>

\* After the last batch: _save_barrels, the stats file, inverted_index.clear().
FlushBarrels ==
    /\ bw_pc = "aggregating"
    /\ bw_i >= Len(forward_files)
    /\ barrel_files' = save_barrels(barrel_files, inverted_index, bw_lexicon)
    /\ bw_stats_file' =
          << [files_processed |-> successful,
              total_words_indexed |-> Len(inverted_index),
              barrels_created |->
                  SavedCount(OrganizeBarrels(<<>>, inverted_index,
                                             IdToWord(bw_lexicon), 1))] >>
    /\ inverted_index' = clear(inverted_index)
    /\ forward_files' = <<>>
    /\ bw_i' = 0
    /\ bw_j' = 0
    /\ bw_pc' = "done"
    /\ builds' = builds + 1
    /\ prev_barrels' = barrel_files
    /\ saved' = save_barrels(<<>>, inverted_index, bw_lexicon)
    /\ prev_saved' = saved
    /\ UNCHANGED <<lxVars, fwVars, callVars>>
    /\ UNCHANGED <<forward_index_dir, bw_lexicon_path, bw_lexicon,
                   batch_size, successful, processed>>

BuildNoFiles ==
    \E size \in 1..MaxBatchSize :
        \E listing \in Listings(JsonFiles(forward_index_dir)) :
            BuildNoFilesWith(size, listing)

BuildStart ==
    \E size \in 1..MaxBatchSize :
        \E listing \in Listings(JsonFiles(forward_index_dir)) :
            BuildStartWith(size, listing)

NextBackward ==
    \/ BuildNoFiles
    \/ BuildStart
    \/ ProcessForwardFile
    \/ FlushBarrels

SpecBackward == InitBackward /\ [][NextBackward]_vars

(* ------------------------------------------------------------------ *)
(* Properties of the backward stage                                    *)
(* ------------------------------------------------------------------ *)

\* a file that holds a forward-index record of the documented shape
WellFormed(content) ==
    /\ content.kind = "record"
    /\ \A k \in 1..Len(content.entries) : Len(content.entries[k]) = 2

\* the files of the directory that hold a record, and those that are corrupted
RecordFiles == {f \in JsonFiles(forward_index_dir) \ {"indexing_stats"} :
                    WellFormed(forward_index_dir[f])}

CorruptedFiles == (JsonFiles(forward_index_dir) \ {"indexing_stats"}) \ RecordFiles

\* the word ids of the lexicon the builder loaded, and every id in play
LexiconIds == {bw_lexicon[k][2] : k \in 1..Len(bw_lexicon)}

AllWordIds == RecordWordIds \cup LexiconIds

\* the positions of the pairs of a record whose word id is w, in record order
PositionsOf(entries, w) ==
    LET hits == SelectSeq(entries, LAMBDA e : Len(e) = 2 /\ e[1] = w)
    IN [k \in 1..Len(hits) |-> hits[k][2]]

\* {doc -> positions} for w, by scanning every forward-index record
ScanPostings(w) ==
    { <<forward_index_dir[f].doc, PositionsOf(forward_index_dir[f].entries, w)>> :
        f \in {g \in RecordFiles : PositionsOf(forward_index_dir[g].entries, w) # <<>>} }

\* {doc -> positions} stored for w in the barrel files
StoredPostings(files, w) ==
    UNION { { <<files[b][i][2][j][1], files[b][i][2][j][2]>> :
                j \in 1..Len(files[b][i][2]) } :
            <<b, i>> \in { <<b, i>> \in (DOMAIN files) \X (1..Cardinality(AllWordIds) + 1) :
                        i <= Len(files[b]) /\ files[b][i][1] = ToString(w) } }

\* the positions stored for w and one document, <<>> when there is none
StoredPositions(files, w, doc) ==
    IF \E e \in StoredPostings(files, w) : e[1] = doc
    THEN (CHOOSE e \in StoredPostings(files, w) : e[1] = doc)[2]
    ELSE <<>>

\* every position entry of every barrel file, counted
RECURSIVE SumLens(_)
SumLens(seqs) ==
    IF seqs = <<>> THEN 0 ELSE Len(Head(seqs)[2]) + SumLens(Tail(seqs))

RECURSIVE SumPostings(_)
SumPostings(barrel) ==
    IF barrel = <<>> THEN 0 ELSE SumLens(Head(barrel)[2]) + SumPostings(Tail(barrel))

RECURSIVE CountIn(_, _)
CountIn(files, names) ==
    IF names = {} THEN 0
    ELSE LET b == CHOOSE x \in names : TRUE
         IN SumPostings(files[b]) + CountIn(files, names \ {b})

BarrelPositionCount(files) == CountIn(files, DOMAIN files)

\* the pairs of the forward-index records whose word id is a lexicon id
RECURSIVE ResolvedPairsIn(_)
ResolvedPairsIn(record_files) ==
    IF record_files = {} THEN 0
    ELSE LET f == CHOOSE x \in record_files : TRUE
         IN Len(SelectSeq(forward_index_dir[f].entries,
                          LAMBDA e : e[1] \in LexiconIds))
            + ResolvedPairsIn(record_files \ {f})

ResolvedPairCount == ResolvedPairsIn(RecordFiles)

BuildDone == bw_pc = "done" /\ builds >= 1

\* C1 as stated: after a build, for every word id w of any forward-index
\* record, the postings stored for w in the barrels are exactly the map
\* {doc -> positions} found by scanning the records for w.
C1_RoundTripEveryWordId ==
    BuildDone =>
        \A w \in RecordWordIds :
            ScanPostings(w) # {} => StoredPostings(barrel_files, w) = ScanPostings(w)

\* C1, amended: after a build, for every word id w that has a lexicon entry
\* and every document whose file holds a well-formed record, the positions
\* stored for w and that document are exactly the positions of the record's
\* pairs with word id w, in record order (none when there is no such pair);
\* a word id without a lexicon entry is stored in no barrel.
C1_RoundTripLexiconIds ==
    BuildDone =>
        /\ \A w \in AllWordIds \ LexiconIds : StoredPostings(barrel_files, w) = {}
        /\ \A w \in LexiconIds : \A f \in RecordFiles :
              StoredPositions(barrel_files, w, forward_index_dir[f].doc)
                = PositionsOf(forward_index_dir[f].entries, w)

\* C1's case: a build over two records that share a lexicon word id, one of
\* them holding it twice, and a record with a word id of no lexicon entry
C1_Witness ==
    /\ BuildDone
    /\ \E w \in LexiconIds :
          /\ Cardinality(ScanPostings(w)) = 2
          /\ \E e \in StoredPostings(barrel_files, w) : Len(e[2]) = 2
    /\ \E w \in RecordWordIds \ LexiconIds : ScanPostings(w) # {}

\* C2: after a build, the position entries of all barrel files are as many as
\* the pairs of all forward-index records whose word id is a lexicon id.
C2_CountConservation ==
    BuildDone => BarrelPositionCount(barrel_files) = ResolvedPairCount

\* the barrel files a build over the given files alone, in the given order,
\* writes into an empty directory
RECURSIVE Aggregate(_, _, _)
Aggregate(index, files, k) ==
    IF k > Len(files) THEN index
    ELSE Aggregate(process_forward_index(index, forward_index_dir[files[k]]).index,
                   files, k + 1)

BarrelsOfBuild(files) == save_barrels(<<>>, Aggregate(<<>>, files, 1), bw_lexicon)

\* the files of the latest build in the order they were processed
ProcessedOrder == [k \in 1..Len(processed) |-> processed[k][1]]

\* C3: when a forward-index file is corrupted, the postings written for every
\* other document are those a build without the corrupted files writes.
C3_PartialFailureIsolation ==
    (BuildDone /\ CorruptedFiles # {}) =>
        LET reference ==
                BarrelsOfBuild(SelectSeq(ProcessedOrder, LAMBDA f : f \in RecordFiles))
        IN \A f \in RecordFiles : \A w \in AllWordIds :
              StoredPositions(saved, w, forward_index_dir[f].doc)
                = StoredPositions(reference, w, forward_index_dir[f].doc)

\* C3's case: a record was aggregated, then a file failed after the record's
\* document got postings, and the postings are in the barrels
C3_Witness ==
    /\ BuildDone
    /\ Len(processed) = 2
    /\ processed[1][2] /\ ~processed[2][2]
    /\ processed[1][1] \in RecordFiles /\ processed[2][1] \in CorruptedFiles
    /\ \E w \in LexiconIds :
          StoredPositions(saved, w, forward_index_dir[processed[1][1]].doc) # <<>>

\* C4: a file whose processing fails contributes no posting to any barrel.
C4_FailedFileContributesNothing ==
    BuildDone =>
        \A k \in 1..Len(processed) :
            ~processed[k][2] =>
                \A w \in AllWordIds :
                    StoredPositions(saved, w, processed[k][1]) = <<>>

\* C5: a second build over the unchanged directory and lexicon leaves barrel
\* files identical to those of the first, order inside them included.
C5_RebuildIdentical ==
    (bw_pc = "done" /\ builds = 2) => saved = prev_saved

\* the barrel files as keyed maps: barrel -> word id -> document -> positions
Keyed(files) ==
    [b \in DOMAIN files |->
        [w \in DictKeys(files[b]) |-> AsMap(DictGet(files[b], w))]]

\* C6: two builds over the same records, whatever the orders in which they
\* process them, write the same barrel keys and, for every word id and
\* document, the same positions.
C6_OrderIndependent ==
    (bw_pc = "done" /\ builds = 2) => Keyed(saved) = Keyed(prev_saved)

\* C6's case: the second build processed the files in another order than the
\* first, which shows in the order inside the barrel files
C6_Witness ==
    /\ bw_pc = "done" /\ builds = 2
    /\ saved # prev_saved
    /\ Keyed(saved) = Keyed(prev_saved)
    /\ Len(processed) = 2

\* the word ids the latest build aggregated a posting for: those of the
\* pairs of the processed records, up to the first malformed element
AggregatedIds ==
    {w \in AllWordIds :
        \E k \in 1..Len(processed) :
            LET content == forward_index_dir[processed[k][1]]
            IN /\ content.kind = "record"
               /\ \E e \in 1..Len(content.entries) :
                     /\ \A j \in 1..e : Len(content.entries[j]) = 2
                     /\ content.entries[e][1] = w}

\* the barrel key of a word: its first three characters in lower case, 'a'
\* where the word has fewer
BarrelKey(w) ==
    [i \in 1..3 |-> IF i > Len(w) THEN 97
                    ELSE IF w[i] >= 65 /\ w[i] <= 90 THEN w[i] + 32 ELSE w[i]]

\* the word the lexicon gives a word id
WordOf(w) == bw_lexicon[CHOOSE k \in 1..Len(bw_lexicon) : bw_lexicon[k][2] = w][1]

\* the barrel files in which the word id w is a key
BarrelsHolding(files, w) ==
    {b \in DOMAIN files : \E i \in 1..Len(files[b]) : files[b][i][1] = ToString(w)}

\* C15: after a build, every word id with a lexicon entry and an aggregated
\* posting is a key of exactly one barrel file, the one named by the barrel
\* key of its word, and a barrel file holds no other word ids.
C15_BarrelMembership ==
    BuildDone =>
        /\ \A w \in LexiconIds \cap AggregatedIds :
              BarrelsHolding(barrel_files, w) = {BarrelKey(WordOf(w))}
        /\ \A w \in AllWordIds : \A b \in BarrelsHolding(barrel_files, w) :
              w \in LexiconIds /\ b = BarrelKey(WordOf(w))
        /\ \A b \in DOMAIN barrel_files : \A i \in 1..Len(barrel_files[b]) :
              \E w \in AllWordIds : barrel_files[b][i][1] = ToString(w)

\* C15 happens: two words of one barrel were aggregated and share its file
C15_Witness ==
    /\ BuildDone
    /\ \E w1, w2 \in LexiconIds \cap AggregatedIds :
          /\ w1 # w2
          /\ BarrelKey(WordOf(w1)) = BarrelKey(WordOf(w2))
          /\ BarrelsHolding(barrel_files, w1) = BarrelsHolding(barrel_files, w2)

\* C16: every barrel file is not empty, its name is three letters a-z, its
\* keys are word ids written as decimal strings, and each value is a map,
\* not empty, from document names to lists, not empty, of integer positions.
C16_BarrelFileShape ==
    BuildDone =>
        \A b \in DOMAIN barrel_files :
            /\ barrel_files[b] # <<>>
            /\ Len(b) = 3
            /\ \A i \in 1..3 : b[i] >= 97 /\ b[i] <= 122
            /\ \A i \in 1..Len(barrel_files[b]) :
                  LET key == barrel_files[b][i][1]
                      docs == barrel_files[b][i][2]
                  IN /\ \E w \in AllWordIds : w \in Nat /\ key = ToString(w)
                     /\ docs # <<>>
                     /\ \A d \in 1..Len(docs) :
                           /\ \E f \in JsonFiles(forward_index_dir) :
                                 docs[d][1] = forward_index_dir[f].doc
                           /\ docs[d][2] # <<>>
                           /\ \A p \in 1..Len(docs[d][2]) : docs[d][2][p] \in Nat

\* C16 happens: a build wrote two barrel files, one of them with a document
\* that has two positions for a word
C16_Witness ==
    /\ BuildDone
    /\ Cardinality(DOMAIN barrel_files) = 2
    /\ \E b \in DOMAIN barrel_files : \E i \in 1..Len(barrel_files[b]) :
          \E d \in 1..Len(barrel_files[b][i][2]) :
              Len(barrel_files[b][i][2][d][2]) = 2

\* a file as it would be had the forward stage resolved no word id that the
\* lexicon lacks: the pairs with such an id are gone, the rest is as it was
WithoutStale(content) ==
    IF content.kind # "record" THEN content
    ELSE [content EXCEPT !.entries =
            SelectSeq(@, LAMBDA e : Len(e) # 2 \/ e[1] \in LexiconIds)]

\* the index aggregated from the given files, in the given order, without
\* the pairs of stale word ids
RECURSIVE AggregateWithoutStale(_, _, _)
AggregateWithoutStale(index, files, k) ==
    IF k > Len(files) THEN index
    ELSE AggregateWithoutStale(
            process_forward_index(index, WithoutStale(forward_index_dir[files[k]])).index,
            files, k + 1)

\* C17: a word id without a lexicon entry is in no barrel, the build ends
\* with its stats written all the same, and the barrel files are those the
\* build writes when the records hold no such word id.
C17_StaleIdsSkipped ==
    BuildDone =>
        /\ \A w \in AllWordIds \ LexiconIds : BarrelsHolding(barrel_files, w) = {}
        /\ processed # <<>> => bw_stats_file # <<>>
        /\ saved = save_barrels(<<>>, AggregateWithoutStale(<<>>, ProcessedOrder, 1),
                                bw_lexicon)

\* C17 happens: a record held a pair with a stale word id before a pair with
\* a lexicon word id, and the build wrote the barrel of the latter
C17_Witness ==
    /\ BuildDone
    /\ \E k \in 1..Len(processed) :
          LET content == forward_index_dir[processed[k][1]]
          IN /\ WellFormed(content)
             /\ Len(content.entries) = 2
             /\ content.entries[1][1] \notin LexiconIds
             /\ content.entries[2][1] \in LexiconIds
             /\ BarrelsHolding(saved, content.entries[2][1]) # {}

\* "abacus", a word of the barrel of ab
W_abacus == <<97, 98, 97, 99, 117, 115>>

\* the words a lexicon that resolves the stale word ids may give them
ResolvingWords == {W_abacus, W_nebula}

\* the lexicon with an entry added for each of the given word ids
RECURSIVE Resolve(_, _, _)
Resolve(lexicon, ids, choice) ==
    IF ids = {} THEN lexicon
    ELSE LET w == CHOOSE x \in ids : TRUE
         IN Resolve(Append(lexicon, <<choice[w], w>>), ids \ {w}, choice)

\* the stats a build over the processed files persists when it runs with
\* the given lexicon
StatsOfBuild(lexicon) ==
    LET index == Aggregate(<<>>, ProcessedOrder, 1)
    IN [files_processed |->
            Cardinality({k \in 1..Len(processed) : processed[k][2]}),
        total_words_indexed |-> Len(index),
        barrels_created |->
            SavedCount(OrganizeBarrels(<<>>, index, IdToWord(lexicon), 1))]

\* C18: when the build aggregated word ids that the lexicon lacks, the stats
\* it persists differ from the stats of the build in which the lexicon
\* resolves those word ids.
C18_MismatchInStats ==
    (BuildDone /\ AggregatedIds \ LexiconIds # {}) =>
        \A choice \in [AggregatedIds \ LexiconIds -> ResolvingWords] :
            bw_stats_file[1]
              # StatsOfBuild(Resolve(bw_lexicon, AggregatedIds \ LexiconIds, choice))

(* ------------------------------------------------------------------ *)
(* The three stages run one after the other                            *)
(* ------------------------------------------------------------------ *)

\* the forward stage before its builder is constructed
ForwardOff ==
    /\ cleaned_data_dir = <<>>
    /\ fw_lexicon_path = <<>>
    /\ fw_lexicon = <<>>
    /\ fw_batch_size = 1
    /\ txt_files = <<>>
    /\ fw_i = 0
    /\ fw_j = 0
    /\ fw_successful = 0
    /\ fw_failed = 0
    /\ fw_stats = <<>>
    /\ fw_output = <<>>
    /\ fw_results = <<>>
    /\ fw_memory = <<>>
    /\ fw_pc = "off"

\* the backward stage before its builder is constructed
BackwardOff ==
    /\ forward_index_dir = <<>>
    /\ bw_lexicon_path = <<>>
    /\ bw_lexicon = <<>>
    /\ batch_size = 1
    /\ forward_files = <<>>
    /\ bw_i = 0
    /\ bw_j = 0
    /\ inverted_index = <<>>
    /\ successful = 0
    /\ processed = <<>>
    /\ barrel_files = <<>>
    /\ bw_stats_file = <<>>
    /\ bw_pc = "off"
    /\ builds = 0
    /\ prev_barrels = <<>>
    /\ saved = <<>>
    /\ prev_saved = <<>>

Text(runs) == [kind |-> "text", runs |-> runs]

NoText(kind) == [kind |-> kind, runs |-> <<>>]

\* a directory holding a.txt, b.txt, c.txt and vocabulary.txt
Corpus3(ca, cb, cc) ==
    [f \in {"a", "b", "c", "vocabulary"} |->
        IF f = "a" THEN ca ELSE IF f = "b" THEN cb ELSE IF f = "c" THEN cc
        ELSE Text(<<W_stab>>)]

\* the same without c.txt
Corpus(ca, cb) == Corpus3(ca, cb, NoText("absent"))

\* The corpora the pipeline is run on: no directory at all, a directory
\* with no text, two documents that share a word, three documents, a
\* document with a word that comes twice and no second document, an
\* unreadable document beside one with a token the lexicon rejects, and an
\* unreadable document alone.
PipelineCorpora ==
    { <<>>,
      Corpus(NoText("absent"), NoText("absent")),
      Corpus3(Text(<<W_star>>), Text(<<W_nebula, W_star>>), Text(<<W_stab>>)),
      Corpus(Text(<<W_star, W_nebula, W_star>>), Text(<<W_stab, W_star>>)),
      Corpus(Text(<<W_nebula, W_star, W_nebula>>), NoText("absent")),
      Corpus(NoText("unreadable"), Text(<<W_star, W_xyzzyqq, W_Star>>)),
      Corpus(NoText("unreadable"), NoText("absent")) }

InitPipeline ==
    /\ lx_cleaned_data_dir \in PipelineCorpora
    /\ english_words = {}
    /\ lx_batch_size = 1
    /\ num_workers = 1
    /\ lx_txt_files = <<>>
    /\ lx_i = 0
    /\ pool_next = 0
    /\ pool_running = {}
    /\ pool_results = <<>>
    /\ all_words = {}
    /\ lexicon_file = <<>>
    /\ lx_stats_file = <<>>
    /\ lx_pc = "idle"
    /\ lx_builds = 0
    /\ prev_lexicon_file = <<>>
    /\ lx_processed = <<>>
    /\ ForwardOff
    /\ BackwardOff
    /\ CallsIdle

\* __init__ of both index builders: open(self.lexicon_path) raises
\* FileNotFoundError when the file is missing, else json.load gives the lexicon
load_lexicon_or_empty(path) ==
    [raised |-> FALSE, lexicon |-> IF path = <<>> THEN <<>> ELSE path[1]]

load_lexicon(path) ==
    IF path = <<>>
    THEN [raised |-> TRUE, lexicon |-> <<>>]
    ELSE [raised |-> FALSE, lexicon |-> path[1]]

\* main of foward_indexing.py, after the process of the lexicon builder has
\* ended: the builder is constructed over a directory (the corpus, or a path
\* where there is none) and a lexicon path (lexicon.json, or a path where
\* there is none).  run() returns at once when the directory does not exist,
\* which is the early return of build_indexes on an empty enumeration.
RunForwardWith(dir, path) ==
    /\ lx_pc = "done"
    /\ fw_pc = "off"
    /\ lx_pc' = "exited"
    /\ lx_batch_size' = 1
    /\ num_workers' = 1
    /\ lx_txt_files' = <<>>
    /\ lx_i' = 0
    /\ all_words' = {}
    /\ lx_builds' = 0
    /\ prev_lexicon_file' = <<>>
    /\ lx_processed' = <<>>
    /\ cleaned_data_dir' = dir
    /\ fw_lexicon_path' = path
    /\ fw_lexicon' = load_lexicon(path).lexicon
    /\ fw_stats' = IF load_lexicon(path).raised THEN <<>> ELSE InitialStats
    /\ fw_pc' = IF load_lexicon(path).raised THEN "no_instance" ELSE "idle"
    /\ UNCHANGED <<lx_cleaned_data_dir, english_words, pool_next, pool_running,
                   pool_results, lexicon_file, lx_stats_file>>
    /\ UNCHANGED <<fw_batch_size, txt_files, fw_i, fw_j, fw_successful, fw_failed,
                   fw_output, fw_results, fw_memory>>
    /\ UNCHANGED <<bwVars, callVars>>

RunForward ==
    \E dir \in {lx_cleaned_data_dir, <<>>} : \E path \in {lexicon_file, <<>>} :
        RunForwardWith(dir, path)

\* main of backward_indexing.py, after the process of the forward builder has
\* ended (or died on its exception): the builder is constructed over the
\* output directory of the forward stage, or a path where there is none, and
\* a lexicon path.
RunBackwardWith(dir, path) ==
    /\ fw_pc \in {"done", "raised", "no_instance"}
    /\ bw_pc = "off"
    /\ fw_batch_size' = 1
    /\ txt_files' = <<>>
    /\ fw_i' = 0
    /\ fw_j' = 0
    /\ fw_successful' = 0
    /\ fw_failed' = 0
    /\ fw_stats' = <<>>
    /\ fw_results' = <<>>
    /\ fw_memory' = <<>>
    /\ forward_index_dir' = dir
    /\ bw_lexicon_path' = path
    /\ bw_lexicon' = load_lexicon(path).lexicon
    /\ bw_pc' = IF load_lexicon(path).raised THEN "no_instance" ELSE "idle"
    /\ UNCHANGED <<cleaned_data_dir, fw_lexicon_path, fw_lexicon, fw_output, fw_pc>>
    /\ UNCHANGED <<batch_size, forward_files, bw_i, bw_j, inverted_index, successful,
                   processed, barrel_files, bw_stats_file, builds, prev_barrels,
                   saved, prev_saved>>
    /\ UNCHANGED <<lxVars, callVars>>

RunBackward ==
    \E dir \in {fw_output, <<>>} : \E path \in {lexicon_file, <<>>} :
        RunBackwardWith(dir, path)

NextPipeline ==
    \/ NextLexicon
    \/ RunForward
    \/ NextForward
    \/ RunBackward
    \/ NextBackward

SpecPipeline == InitPipeline /\ [][NextPipeline]_vars

(* ------------------------------------------------------------------ *)
(* Properties of the pipeline                                          *)
(* ------------------------------------------------------------------ *)

\* whatever order glob() gives, _get_txt_files finds no text in the directory
NoTextIn(dir) ==
    \A listing \in Listings(TxtFiles(dir)) : get_txt_files(listing) = <<>>

\* whatever order glob() gives, _get_forward_index_files finds no record
NoRecordIn(dir) ==
    \A listing \in Listings(JsonFiles(dir)) : get_forward_index_files(listing) = <<>>

\* C21: a stage whose lexicon file is missing, whose input directory is
\* missing or whose input directory holds no input processes no unit and
\* writes nothing: the lexicon builder no lexicon, the forward builder no
\* record, the backward builder no barrel.
C21_SetupErrorsWriteNothing ==
    /\ NoTextIn(lx_cleaned_data_dir) =>
          /\ lx_processed = <<>>
          /\ lexicon_file = <<>>
          /\ lx_stats_file = <<>>
    /\ (fw_pc # "off" /\ (fw_lexicon_path = <<>> \/ NoTextIn(cleaned_data_dir))) =>
          /\ fw_results = <<>>
          /\ fw_memory = <<>>
          /\ fw_output = <<>>
    /\ (bw_pc # "off" /\ (bw_lexicon_path = <<>> \/ NoRecordIn(forward_index_dir))) =>
          /\ processed = <<>>
          /\ inverted_index = <<>>
          /\ barrel_files = <<>>
          /\ bw_stats_file = <<>>

\* C21 happens: the forward builder was run with a lexicon on a directory
\* that does not exist, and the backward builder on a lexicon path where
\* there is no file, although the lexicon stage had written a lexicon
C21_Witness ==
    /\ lexicon_file # <<>>
    /\ fw_pc = "done"
    /\ fw_lexicon_path # <<>>
    /\ cleaned_data_dir = <<>>
    /\ bw_pc = "no_instance"
    /\ bw_lexicon_path = <<>>

(* ---- the lexicon stage and documents that cannot be read ---- *)

UnreadableTexts(dir) ==
    {f \in DOMAIN dir : f # "vocabulary" /\ dir[f].kind = "unreadable"}

\* the directory with the files that cannot be read taken away
ReadableOnly(dir) ==
    [f \in DOMAIN dir |-> IF dir[f].kind = "unreadable" THEN NoText("absent") ELSE dir[f]]

\* lexicon.json after one build over dir in an empty output directory: no
\* file when the directory has no text, else the words of all its files,
\* sorted and numbered
LexiconBuiltFrom(dir, dictionary) ==
    IF NoTextIn(dir) THEN <<>>
    ELSE << Enumerate(sorted(UNION { process_file(dir[f], dictionary) :
                                       f \in TxtFiles(dir) \ {"vocabulary"} })) >>

\* C22 as stated: when documents cannot be read, the build still ends, and
\* the lexicon file it leaves is the one a build over the readable documents
\* alone leaves.
C22_EqualsBuildOfReadable ==
    (lx_pc = "done" /\ UnreadableTexts(lx_cleaned_data_dir) # {}) =>
        /\ lexicon_file # <<>>
        /\ lexicon_file = LexiconBuiltFrom(ReadableOnly(lx_cleaned_data_dir), english_words)

\* C22, amended: when documents cannot be read and at least one can, the
\* build still ends and the lexicon file it leaves is the one a build over
\* the readable documents alone leaves; when none can be read it leaves an
\* empty lexicon, where a build over no document leaves no file.
C22_EqualsBuildOfReadableIfAny ==
    (lx_pc = "done" /\ UnreadableTexts(lx_cleaned_data_dir) # {}) =>
        /\ lexicon_file # <<>>
        /\ ~NoTextIn(ReadableOnly(lx_cleaned_data_dir)) =>
              lexicon_file =
                  LexiconBuiltFrom(ReadableOnly(lx_cleaned_data_dir), english_words)
        /\ NoTextIn(ReadableOnly(lx_cleaned_data_dir)) =>
              /\ lexicon_file = << <<>> >>
              /\ LexiconBuiltFrom(ReadableOnly(lx_cleaned_data_dir), english_words) = <<>>

\* C22 happens: a.txt could not be read, it came before b.txt in a batch of
\* two, and the lexicon saved has the words of b.txt
C22_Witness ==
    /\ lx_pc = "done"
    /\ lx_cleaned_data_dir["a"].kind = "unreadable"
    /\ lx_txt_files = <<"a", "b">>
    /\ lx_batch_size = 2
    /\ lexicon_file # <<>>
    /\ Len(lexicon_file[1]) >= 2

(* ---- the files of the forward-index directory ---- *)

\* A file as forward_test.py wants it: a JSON object that is not empty,
\* whose keys are non-empty strings and whose values are lists.  A record
\* {doc: [...]} is one when doc is not the empty string; the stats file is an
\* object whose values are numbers.
IsObjectOfLists(file) == file.kind = "record" /\ file.doc # ""

\* C23: when build_indexes has completed, every *.json file of the output
\* directory is a non-empty object with non-empty string keys and list values.
C23_EveryJsonFileIsARecord ==
    fw_pc = "done" => \A f \in DOMAIN fw_output : IsObjectOfLists(fw_output[f])

(* ---- positions, from the document to the barrel ---- *)

StrictlyIncreasing(q) == \A i \in 1..(Len(q) - 1) : q[i] < q[i + 1]

\* C24: in every record the forward stage has written the positions go up
\* strictly and each is below the number of tokens of the document, and in
\* every barrel the backward stage has written from these records the
\* positions of each document go up strictly.
C24_PositionOrderPreserved ==
    /\ \A f \in DOMAIN fw_output :
          fw_output[f].kind = "record" =>
              LET pairs == fw_output[f].entries
                  tokens == findall(cleaned_data_dir[fw_output[f].doc].runs)
              IN /\ StrictlyIncreasing([i \in 1..Len(pairs) |-> pairs[i][2]])
                 /\ \A i \in 1..Len(pairs) : pairs[i][2] >= 0 /\ pairs[i][2] < Len(tokens)
    /\ \A b \in DOMAIN barrel_files : \A i \in 1..Len(barrel_files[b]) :
          \A d \in 1..Len(barrel_files[b][i][2]) :
              StrictlyIncreasing(barrel_files[b][i][2][d][2])

\* C24 happens: the same builder has built the barrels twice from the
\* records of the forward stage, and a barrel holds two positions of a word
\* in one document
C24_Witness ==
    /\ fw_pc = "done"
    /\ bw_pc = "done"
    /\ builds = 2
    /\ forward_index_dir = fw_output
    /\ \E b \in DOMAIN barrel_files : \E i \in 1..Len(barrel_files[b]) :
          \E d \in 1..Len(barrel_files[b][i][2]) :
              barrel_files[b][i][2][d][2] = <<0, 2>>

(* ---- the working set of the forward stage ---- *)

\* C25: while build_indexes runs, every document _process_single_file has
\* returned True for has its record in the output directory before the next
\* document is read, and the builder holds the words of at most one document,
\* the one it is processing.
C25_BoundedWorkingSet ==
    /\ Cardinality(DOMAIN fw_memory) <= 1
    /\ fw_pc = "indexing" =>
          /\ \A k \in 1..Len(fw_results) :
                fw_results[k][2] =>
                    /\ fw_results[k][1] \in DOMAIN fw_output
                    /\ fw_output[fw_results[k][1]].kind = "record"
                    /\ fw_output[fw_results[k][1]].doc = fw_results[k][1]
          /\ \A d \in DOMAIN fw_memory :
                /\ Len(fw_results) < Len(txt_files)
                /\ d = txt_files[Len(fw_results) + 1]

\* C25 happens: the second document has been read, and the record of the
\* first is in the output directory
C25_Witness ==
    /\ fw_pc = "indexing"
    /\ Len(fw_results) = 1
    /\ fw_results[1][2]
    /\ fw_results[1][1] \in DOMAIN fw_output
    /\ Len(txt_files) = 2
    /\ DOMAIN fw_memory = {txt_files[2]}
    /\ fw_memory[txt_files[2]] # <<>>

(* ---- the flush of the backward stage ---- *)

\* C26: within a run of build_inverted_index the barrel files change in one
\* step only, the flush: it comes when every forward-index file of the
\* enumeration has been handed to _process_forward_index, in order, and it
\* ends the run; so no barrel file is written before that and none twice.
C26_SingleFlushAtEnd ==
    [][ barrel_files' # barrel_files =>
            /\ bw_pc = "aggregating"
            /\ Len(processed) = Len(forward_files)
            /\ \A k \in 1..Len(forward_files) : processed[k][1] = forward_files[k]
            /\ bw_pc' = "done"
            /\ builds' = builds + 1 ]_vars

\* C26 happens: two files were processed in two batches, and the flush after
\* them has written two barrel files
C26_Witness ==
    /\ bw_pc = "done"
    /\ builds = 1
    /\ batch_size = 1
    /\ Len(processed) = 2
    /\ processed[1][2] /\ processed[2][2]
    /\ Cardinality(DOMAIN barrel_files) = 2

(* ---- the builder between two builds ---- *)

NoDuplicate(q) == \A i, j \in 1..Len(q) : i # j => q[i] # q[j]

\* C27: when build_inverted_index has returned the index in memory is empty,
\* and a second build by the same builder over the same files writes, for
\* every barrel, word id and document, the positions the first wrote, with
\* no position twice.
C27_NoStateSurvivesBuild ==
    /\ bw_pc = "done" => inverted_index = <<>>
    /\ (bw_pc = "done" /\ builds = 2) =>
          /\ Keyed(saved) = Keyed(prev_saved)
          /\ \A b \in DOMAIN saved : \A i \in 1..Len(saved[b]) :
                \A d \in 1..Len(saved[b][i][2]) : NoDuplicate(saved[b][i][2][d][2])

\* C27 happens: the second build of the builder has flushed, both builds
\* processed two records, and a word has two positions in one document
C27_Witness ==
    /\ bw_pc = "done"
    /\ builds = 2
    /\ Len(processed) = 2
    /\ processed[1][2] /\ processed[2][2]
    /\ prev_saved # <<>>
    /\ \E b \in DOMAIN saved : \E i \in 1..Len(saved[b]) :
          \E d \in 1..Len(saved[b][i][2]) : Len(saved[b][i][2][d][2]) = 2

(* ---- the batch loops of the three stages ---- *)

\* the files of a log of <<file, result>> pairs, in its order
Files(log) == [k \in 1..Len(log) |-> log[k][1]]

IsPrefix(p, q) == Len(p) <= Len(q) /\ \A k \in 1..Len(p) : p[k] = q[k]

\* the records a forward build over dir with the lexicon writes: one per
\* readable text
ForwardRecordsOf(dir, lexicon) ==
    [f \in ReadableTexts(dir) |->
        RecordFile(f, IndexWords(findall(dir[f].runs), lexicon).forward_index)]

\* C28: whatever the batch size, a stage hands the files of its enumeration
\* to its unit of work one by one, each once and none left out, and what it
\* writes is fixed by its inputs (and, for the order inside the barrel
\* files, by the enumeration): the lexicon is that of the corpus, the records
\* are those of the readable texts, the barrels are those of the files
\* aggregated in the order of the enumeration.
C28_BatchingOnlyResourceControl ==
    /\ lx_pc = "map" => IsPrefix(lx_processed, lx_txt_files)
    /\ lx_pc = "save" => lx_processed = lx_txt_files
    /\ (lx_pc = "done" /\ lx_builds >= 1) =>
          /\ lx_processed = lx_txt_files
          /\ lexicon_file = LexiconBuiltFrom(lx_cleaned_data_dir, english_words)
    /\ fw_pc = "indexing" =>
          /\ IsPrefix(Files(fw_results), txt_files)
          /\ fw_i >= Len(txt_files) => Files(fw_results) = txt_files
    /\ (fw_pc \in {"done", "raised"} /\ bw_pc = "off") =>
          /\ Files(fw_results) = txt_files
          /\ \A f \in DOMAIN fw_output \ {"indexing_stats"} :
                /\ f \in ReadableTexts(cleaned_data_dir)
                /\ fw_output[f] = ForwardRecordsOf(cleaned_data_dir, fw_lexicon)[f]
          /\ fw_results # <<>> =>
                \A f \in ReadableTexts(cleaned_data_dir) : f \in DOMAIN fw_output
    /\ bw_pc = "aggregating" =>
          /\ IsPrefix(ProcessedOrder, forward_files)
          /\ bw_i >= Len(forward_files) => ProcessedOrder = forward_files
    /\ BuildDone =>
          /\ \E listing \in Listings(JsonFiles(forward_index_dir)) :
                ProcessedOrder = get_forward_index_files(listing)
          /\ saved = BarrelsOfBuild(ProcessedOrder)

\* C28 happens: the lexicon stage has saved a lexicon, the forward stage
\* has written three records, and the backward stage has processed them in a
\* batch of two and a batch of one and written barrels
C28_Witness ==
    /\ lexicon_file # <<>>
    /\ fw_pc = "done"
    /\ bw_pc = "done"
    /\ batch_size = 2
    /\ Len(processed) = 3
    /\ \A k \in 1..3 : processed[k][2]
    /\ Cardinality(DOMAIN saved) = 2

(* ---- from the forward stage to the backward stage ---- *)

\* C29: when build_indexes has completed, every document it has processed
\* successfully, whatever its name, has its own record in the output
\* directory, and that record is among the files _get_forward_index_files
\* gives the backward stage.
C29_NoDocumentLost ==
    fw_pc = "done" =>
        \A d \in IndexedDocs :
            /\ d \in DOMAIN fw_output
            /\ fw_output[d].kind = "record"
            /\ fw_output[d].doc = d
            /\ \A listing \in Listings(JsonFiles(fw_output)) :
                  \E k \in 1..Len(get_forward_index_files(listing)) :
                      get_forward_index_files(listing)[k] = d

(* ------------------------------------------------------------------ *)
(* A build into the output directory of an earlier build               *)
(* ------------------------------------------------------------------ *)

\* The barrel files an earlier build left in output_dir: its lexicon was
\* {"xyzzyqq": 3}, its one record {"old": [[3, 0]]}.
EarlierBarrels ==
    save_barrels(<<>>,
                 process_forward_index(<<>>,
                     [kind |-> "record", doc |-> "old", entries |-> << <<3, 0>> >>]).index,
                 << <<W_xyzzyqq, 3>> >>)

\* __init__ makes output_dir with exist_ok = True and leaves what is in it
InitRebuild ==
    /\ forward_index_dir \in
          {[f \in {"a", "b", "indexing_stats"} |->
                IF f = "a" THEN ca ELSE IF f = "b" THEN cb ELSE StatsContent] :
             ca \in SampleContents("a"), cb \in SampleContents("b")}
    /\ bw_lexicon \in BackwardLexicons
    /\ bw_lexicon_path = <<bw_lexicon>>
    /\ batch_size = 1
    /\ forward_files = <<>>
    /\ bw_i = 0
    /\ bw_j = 0
    /\ inverted_index = <<>>
    /\ successful = 0
    /\ processed = <<>>
    /\ barrel_files = EarlierBarrels
    /\ bw_stats_file = <<>>
    /\ bw_pc = "idle"
    /\ builds = 0
    /\ prev_barrels = <<>>
    /\ saved = <<>>
    /\ prev_saved = <<>>
    /\ LexiconIdle
    /\ ForwardIdle
    /\ CallsIdle

NextRebuild == NextBackward

SpecRebuild == InitRebuild /\ [][NextRebuild]_vars

\* the document names of the forward-index records present
CurrentDocs ==
    {forward_index_dir[f].doc :
        f \in {g \in JsonFiles(forward_index_dir) \ {"indexing_stats"} :
                  forward_index_dir[g].kind = "record"}}

\* C30: after a build into a directory that held barrels of an earlier
\* build, the barrel files present are those this build wrote, and they name
\* no document that is not among the current forward-index records.
C30_NoStaleBarrel ==
    BuildDone =>
        /\ barrel_files = saved
        /\ \A b \in DOMAIN barrel_files : \A i \in 1..Len(barrel_files[b]) :
              \A d \in 1..Len(barrel_files[b][i][2]) :
                  barrel_files[b][i][2][d][1] \in CurrentDocs

====
